---- MODULE Spec2Model ----
(***************************************************************************)
(* Decision pipeline of admin_billdesk: pre-processing of validated bills  *)
(* into decision groups, one text-generation call per engine run, the      *)
(* defensive parse of its output and the enrichment of every decision from *)
(* its group (src/src/app/decision/engine.py, preprocessing.py, app.py).   *)
(*                                                                         *)
(* Representation.                                                         *)
(*  - Python None and an optional number are <<>> and <<n>>.               *)
(*  - Amounts are integers (the code's floats hold whole amounts here).    *)
(*  - A date "DD/MM/YYYY" is <<dd, mm, yyyy>>, a month "YYYY-MM" is        *)
(*    <<yyyy, mm>>, "unknown" is <<>>.                                     *)
(*  - An employee key "id_name" is <<id, name>>.                           *)
(*  - The generator's raw text is represented by what json decoding makes  *)
(*    of it: a kind (no text, no JSON, a scalar, an object, an array) and, *)
(*    for arrays, the decoded elements.                                    *)
(***************************************************************************)
EXTENDS Integers, Sequences, FiniteSets, TLC

VARIABLES
    bills_map,        \* argument of DecisionEngine.run: sequence of [key, bills]
    policy_limit,     \* policy["meal_allowance"]["limit"], optional
    category_filter,  \* argument category_filter of run ("" when absent)
    entry,            \* which entry point is running: "run" / "run_with_prepared"
    pc,               \* position inside the engine run
    groups_data,      \* List[DecisionGroup] of the run
    save_data,        \* List[SaveEntry] of the run
    raw_output,       \* what the generator returned
    decisions,        \* result of _parse_and_enrich_decisions
    llm_calls,        \* number of invocations of the generator in this run
    raw_files,        \* engine raw-output files on disk: set of [name, content]
    prep_written,     \* number of write_preprocessing_output calls so far
    copied,           \* save entries handed to copy_files
    returned,         \* value returned by the run (<<>> before the return)
    alt_output,       \* second generator output of the paired evaluation
    alt_decisions,    \* decisions of the second output
    all_bills,        \* BillDeskApp.all_bills
    app_pc,           \* position of the orchestrator ("none": engine called directly)
    cat_idx,          \* index into the orchestrator's category list
    all_decisions,    \* decisions accumulated by the orchestrator
    rag,              \* "on" when a policy extractor is set and enable_rag is true
    filtered_map,     \* bills_map inside run_preprocessing, after the filter
    prep_file,        \* preprocessing_output.json in the output directory
    prep_calls,       \* history: arguments of the write_preprocessing_output calls
    prep_steps,       \* groups inside run_preprocessing: as prepared, as limited
    post_file,        \* postprocessing_output.json in the output directory
    post_calls,       \* history: decisions of the write_decision_outputs calls
    grouped,          \* result of group_decisions in the last write
    summary,          \* result of build_summary_from_grouped in the last write
    scan,             \* locals of _find_balanced_array: s, start, i, depth, ...
    raw_log           \* history: [category, content] of every raw output written

vars == <<bills_map, policy_limit, category_filter, entry, pc, groups_data,
          save_data, raw_output, decisions, llm_calls, raw_files, prep_written,
          copied, returned, alt_output, alt_decisions, all_bills, app_pc,
          cat_idx, all_decisions, rag, filtered_map, prep_file, prep_calls,
          prep_steps, post_file, post_calls, grouped, summary, scan, raw_log>>

-----------------------------------------------------------------------------
(* Python values *)

None == <<>>
Some(v) == <<v>>

\* Python truthiness of an optional number: None and 0 are falsy.
Truthy(o) == o # None /\ o[1] # 0

\* `a or b` for an optional number a and a plain number b.
OrNum(o, alt) == IF Truthy(o) THEN o[1] ELSE alt

Min(a, b) == IF a <= b THEN a ELSE b
Max(a, b) == IF a >= b THEN a ELSE b

\* [x for x in s if Test(x)]
Filter(s, Test(_)) == SelectSeq(s, Test)

\* [F(x) for x in s]
Map(s, F(_)) == [i \in 1..Len(s) |-> F(s[i])]

RECURSIVE Concat(_)
\* concatenation of a sequence of sequences
Concat(ss) == IF ss = <<>> THEN <<>> ELSE Head(ss) \o Concat(Tail(ss))

Range(s) == {s[i] : i \in DOMAIN s}

RECURSIVE SumOf(_)
\* sum(xs)
SumOf(xs) == IF xs = <<>> THEN 0 ELSE Head(xs) + SumOf(Tail(xs))

RECURSIVE Distinct(_)
\* the values of s in order of first appearance (the key order of a dict
\* filled by iterating s)
Distinct(s) ==
    IF s = <<>> THEN <<>>
    ELSE LET front == Distinct(SubSeq(s, 1, Len(s) - 1))
             last == s[Len(s)]
         IN IF last \in Range(front) THEN front ELSE Append(front, last)

-----------------------------------------------------------------------------
(* Dates: commons/utils.py *)

\* datetime.strptime(d, "%d/%m/%Y") succeeds
Parseable(d) ==
    /\ d # None
    /\ d[2] \in 1..12
    /\ d[1] >= 1
    /\ LET leap == d[3] % 4 = 0 /\ (d[3] % 100 # 0 \/ d[3] % 400 = 0)
       IN d[1] <= (IF d[2] = 2 THEN (IF leap THEN 29 ELSE 28)
                  ELSE IF d[2] \in {4, 6, 9, 11} THEN 30 ELSE 31)

UnknownMonth == <<>>

month_from_date_str(d) == IF Parseable(d) THEN <<d[3], d[2]>> ELSE None

RECURSIVE month_from_bills(_)
month_from_bills(bills) ==
    IF bills = <<>> THEN UnknownMonth
    ELSE IF Parseable(Head(bills).date) THEN <<Head(bills).date[3], Head(bills).date[2]>>
         ELSE month_from_bills(Tail(bills))

\* float(bill.get("reimbursable_amount") or bill.get("amount") or 0)
bill_amount(b) ==
    IF Truthy(b.reimbursable_amount) THEN b.reimbursable_amount[1]
    ELSE OrNum(b.amount, 0)

RECURSIVE currency_from_bills(_)
\* first non-empty currency, "" standing for None
currency_from_bills(bills) ==
    IF bills = <<>> THEN ""
    ELSE IF Head(bills).currency # "" THEN Head(bills).currency
         ELSE currency_from_bills(Tail(bills))

RECURSIVE SumDatedAmounts(_)
\* Variant of SumAmounts that leaves bills without a date out.
SumDatedAmounts(bills) ==
    IF bills = <<>> THEN 0
    ELSE (IF Head(bills).date = None THEN 0 ELSE bill_amount(Head(bills)))
         + SumDatedAmounts(Tail(bills))

RECURSIVE SumAmounts(_)
SumAmounts(bills) ==
    IF bills = <<>> THEN 0 ELSE bill_amount(Head(bills)) + SumAmounts(Tail(bills))

\* daily_totals_from_bills: the dict as a sequence of [date, total] in
\* insertion order; bills without a date are skipped.
daily_totals_from_bills(bills) ==
    LET HasDate(b) == b.date # None
        DateOf(b) == b.date
        dates == Distinct(Map(Filter(bills, HasDate), DateOf))
        Entry(d) == LET OnDate(b) == b.date = d
                    IN [date |-> d, total |-> SumAmounts(Filter(bills, OnDate))]
    IN Map(dates, Entry)

-----------------------------------------------------------------------------
(* Pre-processing: app/decision/preprocessing.py *)

\* One part of a reason text; the parts of a reason are joined by "; ".
\* "Name mismatch (57%)" is [label |-> "Name mismatch", score |-> <<57>>].
Part(label, score) == [label |-> label, score |-> score]

ValidationFailed == <<Part("Validation failed", None)>>

\* _validation_to_reason. v.has is FALSE for a missing or empty validation
\* record; v.address_match is "absent" when the key is missing.
_validation_to_reason(v) ==
    IF ~v.has THEN ValidationFailed
    ELSE LET r1 == IF ~v.month_match THEN <<Part("Month mismatch", None)>> ELSE <<>>
             r2 == IF ~v.name_match
                   THEN <<Part("Name mismatch", v.name_match_score)>> ELSE <<>>
             r3 == IF v.address_match = "false"
                   THEN <<Part("Address mismatch", v.address_match_score)>> ELSE <<>>
             reasons == r1 \o r2 \o r3
         IN IF reasons # <<>> THEN reasons ELSE ValidationFailed

_invalid_bill_reasons_from_bills(bills) ==
    LET R(b) == [bill_id |-> b.id, reason |-> _validation_to_reason(b.validation)]
    IN Map(bills, R)

\* _group_record / DecisionGroup(...): the three limit fields and the RAG
\* context ("" for None) start as None.
_group_record(emp_id, emp_name, category, date, month, valid_bills, invalid_bills, daily_total, monthly_total, currency) ==
    LET IdOf(b) == b.id
    IN [employee_id |-> emp_id, employee_name |-> emp_name, category |-> category,
        date |-> date, month |-> month,
        valid_bills |-> Map(valid_bills, IdOf),
        invalid_bills |-> Map(invalid_bills, IdOf),
        invalid_bill_reasons |-> _invalid_bill_reasons_from_bills(invalid_bills),
        daily_total |-> daily_total, monthly_total |-> monthly_total,
        currency |-> currency,
        daily_limit |-> None, reimbursable_daily_total |-> None,
        daily_total_exceeds_limit |-> None, rag_policy_context |-> ""]

DefaultCurrency == "INR"
PerDiemCategory == "meal"

_groups_for_category(emp_id, emp_name, category, valid_bills, invalid_bills) ==
    LET bills_for_currency ==
            IF valid_bills # <<>> THEN valid_bills ELSE valid_bills \o invalid_bills
        found == currency_from_bills(bills_for_currency)
        group_currency == IF found # "" THEN found ELSE DefaultCurrency
        daily_totals == daily_totals_from_bills(valid_bills)
        DayGroup(e) ==
            LET OnDate(b) == b.date = e.date
                date_bills == Filter(valid_bills, OnDate)
                inv_for_date == Filter(invalid_bills, OnDate)
                m == month_from_date_str(e.date)
                month == IF m # None THEN m ELSE month_from_bills(date_bills)
                c == currency_from_bills(date_bills)
                currency == IF c # "" THEN c ELSE group_currency
            IN _group_record(emp_id, emp_name, category, e.date, month, date_bills,
                             inv_for_date, Some(e.total), None, currency)
    IN IF category = PerDiemCategory /\ daily_totals # <<>>
       THEN Map(daily_totals, DayGroup)
       ELSE <<_group_record(emp_id, emp_name, category, None,
                            month_from_bills(valid_bills \o invalid_bills),
                            valid_bills, invalid_bills,
                            None, Some(SumAmounts(valid_bills)), group_currency)>>

\* Variant of _save_entry that files a bill without a validation record
\* with the valid ones.
SaveEntryLenient(emp_id, emp_name, category, valid_bills, invalid_bills) ==
    LET FileOf(b) == b.filename
        Unchecked(b) == ~b.validation.has
        Checked(b) == b.validation.has
    IN [employee_id |-> emp_id, employee_name |-> emp_name, category |-> category,
        valid_files |-> Map(valid_bills \o Filter(invalid_bills, Unchecked), FileOf),
        invalid_files |-> Map(Filter(invalid_bills, Checked), FileOf)]

_save_entry(emp_id, emp_name, category, valid_bills, invalid_bills) ==
    LET FileOf(b) == b.filename
    IN [employee_id |-> emp_id, employee_name |-> emp_name, category |-> category,
        valid_files |-> Map(valid_bills, FileOf),
        invalid_files |-> Map(invalid_bills, FileOf)]

\* Variant of Lower that leaves the text as it is.
LowerNothing(c) == c

\* str.strip().lower() on the category names that occur
Lower(c) ==
    CASE c = "Meal" -> "meal"
      [] c = "MEAL" -> "meal"
      [] c = "Commute" -> "commute"
      [] c = "Cab" -> "cab"
      [] OTHER -> c

\* filter_bills_by_category; "" is the absent filter
filter_bills_by_category(bm, filter) ==
    IF filter = "" THEN bm
    ELSE LET Keep(b) == Lower(b.category) = Lower(filter)
             F(e) == [key |-> e.key, bills |-> Filter(e.bills, Keep)]
             NonEmpty(e) == e.bills # <<>>
         IN Filter(Map(bm, F), NonEmpty)

\* The groups and the save entry of one employee: the inner loops of
\* prepare_groups.
EmployeeGroups(e) ==
    LET CatOf(b) == b.category
        cats == Distinct(Map(e.bills, CatOf))
        PerCat(cat) ==
            LET InCat(b) == b.category = cat
                cat_bills == Filter(e.bills, InCat)
                Valid(b) == b.validation.has /\ b.validation.is_valid
                Invalid(b) == ~Valid(b)
                valid_bills == Filter(cat_bills, Valid)
                invalid_bills == Filter(cat_bills, Invalid)
            IN [groups |-> _groups_for_category(e.key[1], e.key[2], cat,
                                                valid_bills, invalid_bills),
                save |-> _save_entry(e.key[1], e.key[2], cat,
                                     valid_bills, invalid_bills)]
    IN Map(cats, PerCat)

\* prepare_groups -> [groups, save]
prepare_groups(bm) ==
    LET per == Concat(Map(bm, EmployeeGroups))
        G(x) == x.groups
        S(x) == x.save
    IN [groups |-> Concat(Map(per, G)), save |-> Map(per, S)]

\* Variant of LimitGroup that also files the capped amount as the monthly
\* total.
LimitGroupIntoMonthly(g, limit) ==
    IF g.category = PerDiemCategory /\ g.daily_total # None /\ limit # None
    THEN [g EXCEPT !.daily_limit = limit,
                   !.reimbursable_daily_total = Some(Min(g.daily_total[1], limit[1])),
                   !.monthly_total = Some(Min(g.daily_total[1], limit[1])),
                   !.daily_total_exceeds_limit = Some(g.daily_total[1] > limit[1])]
    ELSE g

\* Variant of LimitGroup that leaves the daily total uncapped.
LimitGroupUncapped(g, limit) ==
    IF g.category = PerDiemCategory /\ g.daily_total # None /\ limit # None
    THEN [g EXCEPT !.daily_limit = limit,
                   !.reimbursable_daily_total = g.daily_total,
                   !.daily_total_exceeds_limit = Some(g.daily_total[1] > limit[1])]
    ELSE g

\* apply_meal_limits for one group; limit is optional
LimitGroup(g, limit) ==
    IF g.category = PerDiemCategory /\ g.daily_total # None /\ limit # None
    THEN [g EXCEPT !.daily_limit = limit,
                   !.reimbursable_daily_total = Some(Min(g.daily_total[1], limit[1])),
                   !.daily_total_exceeds_limit = Some(g.daily_total[1] > limit[1])]
    ELSE g

\* The policy's limit after float(): a value float() rejects (a sequence of
\* two, <<"text", t>>) counts as no limit.
meal_limit(limit) == IF limit # None /\ Len(limit) = 1 THEN limit ELSE None

apply_meal_limits(groups, limit) ==
    LET L(g) == LimitGroup(g, meal_limit(limit)) IN Map(groups, L)

\* policy_extractor.get_relevant_policy(category): the extractor of the
\* runs modelled here finds policy text for the per-diem category and
\* nothing ("") for any other.
get_relevant_policy(category) ==
    IF category = PerDiemCategory THEN "meal policy" ELSE ""

\* add_rag_context; r is "on" when an extractor is set and enable_rag is true
add_rag_context(groups, r) ==
    LET A(g) == IF get_relevant_policy(g.category) # ""
                THEN [g EXCEPT !.rag_policy_context = get_relevant_policy(g.category)]
                ELSE g
    IN IF r # "on" THEN groups ELSE Map(groups, A)

\* run_preprocessing
run_preprocessing(bm, limit, filter, r) ==
    LET filtered == filter_bills_by_category(bm, filter)
        prepared == prepare_groups(filtered)
    IN IF filtered = <<>> THEN [groups |-> <<>>, save |-> <<>>]
       ELSE [groups |-> add_rag_context(apply_meal_limits(prepared.groups, limit), r),
             save |-> prepared.save]

\* The groups inside run_preprocessing: as prepare_groups built them and as
\* apply_meal_limits left them (both empty on the early return).
NoSteps == [prepared |-> <<>>, limited |-> <<>>]

StepsOfPreprocessing(bm, limit, filter) ==
    LET filtered == filter_bills_by_category(bm, filter)
        prepared == prepare_groups(filtered).groups
    IN IF filtered = <<>> THEN NoSteps
       ELSE [prepared |-> prepared, limited |-> apply_meal_limits(prepared, limit)]

\* preprocessing_output.json before the first write.
NoFile ==
    [exists |-> FALSE, by_employee |-> <<>>, group_count |-> 0,
     save_entries_count |-> 0]

\* The by_employee dict of one call, as a sequence of [key, groups, save_data]
\* in insertion order: keys of the groups first, then keys of the save
\* entries not seen yet.
ThisRunByEmployee(groups, save) ==
    LET KeyOf(x) == <<x.employee_id, x.employee_name>>
        keys == Distinct(Map(groups, KeyOf) \o Map(save, KeyOf))
        E(k) == LET Mine(x) == KeyOf(x) = k
                IN [key |-> k, groups |-> Filter(groups, Mine),
                    save_data |-> Filter(save, Mine)]
    IN Map(keys, E)

\* Variant of MergeByEmployee in which a key of this call replaces the
\* stored entry of that key.
MergeReplacing(existing_by, by) ==
    LET KeyOf(e) == e.key
        keys == Distinct(Map(existing_by, KeyOf) \o Map(by, KeyOf))
        Of(b, k) == LET Is(e) == e.key = k IN Filter(b, Is)
        E(k) == IF Of(by, k) # <<>> THEN Of(by, k)[1] ELSE Of(existing_by, k)[1]
    IN Map(keys, E)

\* The merge into the by_employee of the existing file: existing keys keep
\* their place and are extended, new keys follow.
MergeByEmployee(existing_by, by) ==
    LET KeyOf(e) == e.key
        keys == Distinct(Map(existing_by, KeyOf) \o Map(by, KeyOf))
        Of(b, k) == LET Is(e) == e.key = k
                        hit == Filter(b, Is)
                    IN IF hit = <<>> THEN [key |-> k, groups |-> <<>>, save_data |-> <<>>]
                       ELSE hit[1]
        E(k) == [key |-> k,
                 groups |-> Of(existing_by, k).groups \o Of(by, k).groups,
                 save_data |-> Of(existing_by, k).save_data \o Of(by, k).save_data]
    IN Map(keys, E)

\* write_preprocessing_output: the file after the call (the file, once
\* written by this function, is read back without error).
write_preprocessing_output(file, groups, save) ==
    LET by == ThisRunByEmployee(groups, save)
    IN IF file.exists
       THEN [exists |-> TRUE,
             by_employee |-> MergeByEmployee(file.by_employee, by),
             group_count |-> file.group_count + Len(groups),
             save_entries_count |-> file.save_entries_count + Len(save)]
       ELSE [exists |-> TRUE, by_employee |-> by,
             group_count |-> Len(groups), save_entries_count |-> Len(save)]

-----------------------------------------------------------------------------
(* Enrichment of one decision: app/decision/engine.py *)

\* str.upper() on the verdict texts that occur
Upper(d) ==
    CASE d = "reject" -> "REJECT"
      [] d = "Reject" -> "REJECT"
      [] d = "approve" -> "APPROVE"
      [] OTHER -> d

\* str.strip() of a reason text: a reason of blanks strips to the empty text
Blank == <<Part(" ", None)>>
Strip(r) == IF r = Blank THEN <<>> ELSE r

NoSpecificReason == <<Part("Rejected (no specific reason provided)", None)>>

\* Variant of _build_error_summary with one record per entry.
ErrorSummaryPerEntry(invalid_bill_reasons) ==
    LET Rec(r) == [reason |-> r.reason, bill_ids |-> <<r.bill_id>>, count |-> 1]
    IN Map(invalid_bill_reasons, Rec)

\* _build_error_summary: [{reason, bill_ids, count}] in order of first
\* appearance of each reason text
_build_error_summary(invalid_bill_reasons) ==
    LET ReasonOf(r) == r.reason
        IdOf(r) == r.bill_id
        Rec(reason) ==
            LET Same(r) == r.reason = reason
                ids == Map(Filter(invalid_bill_reasons, Same), IdOf)
            IN [reason |-> reason, bill_ids |-> ids, count |-> Len(ids)]
    IN Map(Distinct(Map(invalid_bill_reasons, ReasonOf)), Rec)

\* CONFIDENCE_MANUAL_REVIEW_THRESHOLD = 0.5 and the score, both in units of
\* 1/300 so that 0.10 * (n / 3.0) is a whole number
ThresholdUnits == 150

\* Variant of _compute_confidence_score without the deduction for a group
\* that has no valid bill.
ScoreIgnoringValidBills(group) ==
    LET amt == IF Lower(group.category) = "meal" THEN group.daily_total
               ELSE group.monthly_total
        s1 == IF group.month = UnknownMonth THEN 75 ELSE 0
        s2 == IF ~Truthy(amt) THEN 105 ELSE 0
        s4 == IF group.invalid_bills # <<>>
              THEN 10 * Min(3, Len(group.invalid_bills)) ELSE 0
    IN Max(0, Min(300, 300 - s1 - s2 - s4))

_compute_confidence_score(group) ==
    LET amt == IF Lower(group.category) = "meal" THEN group.daily_total
               ELSE group.monthly_total
        s1 == IF group.month = UnknownMonth THEN 75 ELSE 0
        s2 == IF ~Truthy(amt) THEN 105 ELSE 0
        s3 == IF group.valid_bills = <<>> THEN 90 ELSE 0
        s4 == IF group.invalid_bills # <<>>
              THEN 10 * Min(3, Len(group.invalid_bills)) ELSE 0
    IN Max(0, Min(300, 300 - s1 - s2 - s3 - s4))

\* round(confidence, 2), in hundredths
Round2(units) == (2 * units + 3) \div 6

RECURSIVE ReasonLookupItemOnly(_, _, _)
\* Variant of ReasonLookup that enters the item's reasons only.
ReasonLookupItemOnly(entries, bid, cur) ==
    IF entries = <<>> THEN cur
    ELSE LET r == Head(entries)
             next == IF r.bill_id = bid /\ r.take /\ ~r.direct /\ Strip(r.reason) # <<>>
                     THEN Strip(r.reason) ELSE cur
         IN ReasonLookupItemOnly(Tail(entries), bid, next)

RECURSIVE ReasonLookup(_, _, _)
\* reason_lookup.get(bid) after the group's reasons (entered as they are) and
\* then the item's (entered when bill id and reason are non-empty, stripped,
\* keeping the earlier entry when the stripped text is empty) were entered in
\* order; <<>> when no source has a reason
ReasonLookup(entries, bid, cur) ==
    IF entries = <<>> THEN cur
    ELSE LET r == Head(entries)
             next == IF r.bill_id = bid /\ r.take
                     THEN (IF r.direct THEN r.reason
                           ELSE IF Strip(r.reason) # <<>> THEN Strip(r.reason)
                           ELSE cur)
                     ELSE cur
         IN ReasonLookup(Tail(entries), bid, next)

\* Variant of RejectFields that trusts the item: the ids stay where the
\* generator put them and its approved amount is kept.
RejectFieldsTrustItem(item) ==
    [valid_bill_ids |-> item.valid_bill_ids,
     invalid_bill_ids |-> item.invalid_bill_ids,
     approved_amount |-> OrNum(item.approved_amount, 0)]

\* The fields _enrich_decision_item sets when the verdict is REJECT.
RejectFields(item) ==
    [valid_bill_ids |-> <<>>,
     invalid_bill_ids |-> item.valid_bill_ids \o item.invalid_bill_ids,
     approved_amount |-> 0]

\* Variant of ApproveFields that keeps the generator's approved amount when
\* it gave one.
ApproveFieldsTrustItem(item, group) ==
    [valid_bill_ids |-> item.valid_bill_ids,
     invalid_bill_ids |-> item.invalid_bill_ids,
     approved_amount |->
        IF Truthy(item.approved_amount) THEN item.approved_amount[1]
        ELSE IF group.category = PerDiemCategory
        THEN OrNum(group.reimbursable_daily_total, OrNum(group.daily_total, 0))
        ELSE OrNum(group.monthly_total, 0)]

\* The fields it sets otherwise: the ids stay as the item has them.
ApproveFields(item, group) ==
    [valid_bill_ids |-> item.valid_bill_ids,
     invalid_bill_ids |-> item.invalid_bill_ids,
     approved_amount |->
        IF group.category = PerDiemCategory
        THEN OrNum(group.reimbursable_daily_total, OrNum(group.daily_total, 0))
        ELSE OrNum(group.monthly_total, 0)]

\* claimed_amount
ClaimedAmount(group) ==
    IF group.category = PerDiemCategory THEN OrNum(group.daily_total, 0)
    ELSE OrNum(group.monthly_total, 0)

\* item["category"]
EnrichedCategory(item, group) ==
    Lower(IF group.category # "" THEN group.category
          ELSE IF item.category # "" THEN item.category ELSE "unknown")

\* manual_review
ManualReview(group) == _compute_confidence_score(group) < ThresholdUnits

\* Does _enrich_decision_item raise on this item?  item.bad names the field
\* the generator filled with a value of the wrong JSON type (a number):
\* "decision" fails at .upper(), "invalid_bill_reasons" at the iteration.
EnrichRaises(item) == item.bad \in {"decision", "invalid_bill_reasons"}

\* `if group.get(k) is not None: item[k] = group.get(k)`: the item keeps its
\* own value when the group has none.
KeepUnlessGroup(of_group, of_item) == IF of_group # None THEN of_group ELSE of_item

\* _enrich_decision_item(item, group) when it does not raise: the item after
\* the call (parse_failed is set by the caller).
_enrich_decision_item(item, group) ==
    LET ids == IF Upper(item.decision) = "REJECT" THEN RejectFields(item)
               ELSE ApproveFields(item, group)
        FromGroup(r) == [bill_id |-> r.bill_id, reason |-> r.reason,
                         take |-> TRUE, direct |-> TRUE]
        FromItem(r) == [bill_id |-> r.bill_id, reason |-> r.reason,
                        take |-> r.bill_id # "" /\ r.reason # <<>>,
                        direct |-> FALSE]
        entries == Map(group.invalid_bill_reasons, FromGroup)
                   \o Map(item.invalid_bill_reasons, FromItem)
        ReasonFor(bid) ==
            LET found == ReasonLookup(entries, bid, <<>>)
            IN [bill_id |-> bid,
                reason |-> IF found # <<>> THEN found ELSE NoSpecificReason]
        invalid_bill_reasons == Map(ids.invalid_bill_ids, ReasonFor)
    IN [decision |-> item.decision,
        employee_id |-> item.employee_id,
        employee_name |-> item.employee_name,
        reasons |-> item.reasons,
        category |-> EnrichedCategory(item, group),
        currency |-> IF group.currency # "" THEN group.currency ELSE DefaultCurrency,
        daily_total |-> group.daily_total,
        monthly_total |-> group.monthly_total,
        daily_limit |-> KeepUnlessGroup(group.daily_limit, item.daily_limit),
        reimbursable_daily_total |->
            KeepUnlessGroup(group.reimbursable_daily_total,
                            item.reimbursable_daily_total),
        daily_total_exceeds_limit |->
            KeepUnlessGroup(group.daily_total_exceeds_limit,
                            item.daily_total_exceeds_limit),
        claimed_amount |-> ClaimedAmount(group),
        valid_bill_ids |-> ids.valid_bill_ids,
        invalid_bill_ids |-> ids.invalid_bill_ids,
        approved_amount |-> ids.approved_amount,
        month |-> group.month,
        date |-> group.date,
        invalid_bill_reasons |-> invalid_bill_reasons,
        error_summary |-> _build_error_summary(invalid_bill_reasons),
        confidence_score |-> Round2(_compute_confidence_score(group)),
        manual_review |-> ManualReview(group),
        parse_failed |-> FALSE]

-----------------------------------------------------------------------------
(* Parsing the generator output: app/decision/engine.py *)

\* A generator element with every field absent: the JSON object {}.
EmptyObject ==
    [obj |-> TRUE, bad |-> "", decision |-> "", employee_id |-> "",
     employee_name |-> "", category |-> "", valid_bill_ids |-> <<>>,
     invalid_bill_ids |-> <<>>, invalid_bill_reasons |-> <<>>,
     claimed_amount |-> None, approved_amount |-> None, currency |-> "",
     daily_limit |-> None, reimbursable_daily_total |-> None,
     daily_total_exceeds_limit |-> None,
     month |-> None, date |-> None, reasons |-> ""]

\* The dict _extract_decisions_from_llm_output puts in place of an array
\* element that is not an object.
NotAnObjectItem ==
    [EmptyObject EXCEPT !.decision = "REJECT", !.reasons = "not a valid object (parse_failed)"]

\* _extract_decisions_from_llm_output: [ok |-> FALSE] for (None, error), else
\* the list of dicts.  Only an array, bare or under "decisions", is a list.
_extract_decisions_from_llm_output(output) ==
    IF output.kind \in {"array", "decisions"}
    THEN LET Fix(e) == IF e.obj THEN e ELSE NotAnObjectItem
         IN [ok |-> TRUE, items |-> Map(output.items, Fix)]
    ELSE [ok |-> FALSE, items |-> <<>>]

\* Variant of _make_parse_failed_placeholder that leaves the group's valid
\* bills out.
PlaceholderWithoutValidIds(group) ==
    [obj |-> TRUE, bad |-> "", decision |-> "REJECT",
     employee_id |-> group.employee_id, employee_name |-> group.employee_name,
     category |-> group.category,
     valid_bill_ids |-> <<>>,
     invalid_bill_ids |-> group.invalid_bills,
     invalid_bill_reasons |-> <<>>,
     claimed_amount |-> Some(0), approved_amount |-> Some(0),
     currency |-> group.currency,
     daily_limit |-> None, reimbursable_daily_total |-> None,
     daily_total_exceeds_limit |-> None,
     month |-> None, date |-> None,
     reasons |-> "Decision output parse failed; sent to manual review."]

\* _make_parse_failed_placeholder
_make_parse_failed_placeholder(group) ==
    [obj |-> TRUE, bad |-> "", decision |-> "REJECT",
     employee_id |-> group.employee_id, employee_name |-> group.employee_name,
     category |-> group.category,
     valid_bill_ids |-> group.valid_bills,
     invalid_bill_ids |-> group.invalid_bills,
     invalid_bill_reasons |-> <<>>,
     claimed_amount |-> Some(0), approved_amount |-> Some(0),
     currency |-> group.currency,
     daily_limit |-> None, reimbursable_daily_total |-> None,
     daily_total_exceeds_limit |-> None,
     month |-> None, date |-> None,
     reasons |-> "Decision output parse failed; sent to manual review."]

\* placeholder, enriched, then item["parse_failed"] = True
PlaceholderDecision(group) ==
    [_enrich_decision_item(_make_parse_failed_placeholder(group), group)
        EXCEPT !.parse_failed = TRUE]

\* One iteration of the loop of _parse_and_enrich_decisions: the decision
\* for group i.
DecisionAt(items, groups, i) ==
    IF i > Len(items) THEN PlaceholderDecision(groups[i])
    ELSE IF ~items[i].obj THEN PlaceholderDecision(groups[i])
    ELSE IF EnrichRaises(items[i]) THEN PlaceholderDecision(groups[i])
    ELSE _enrich_decision_item(items[i], groups[i])

\* Variant of _parse_and_enrich_decisions that pairs elements with groups
\* and stops at the shorter list.
ParseEnrichZip(output, groups) ==
    LET parsed == _extract_decisions_from_llm_output(output)
    IN IF ~parsed.ok
       THEN [i \in 1..Len(groups) |-> PlaceholderDecision(groups[i])]
       ELSE [i \in 1..Min(Len(groups), Len(parsed.items)) |->
                DecisionAt(parsed.items, groups, i)]

_parse_and_enrich_decisions(output, groups) ==
    LET parsed == _extract_decisions_from_llm_output(output)
    IN IF ~parsed.ok
       THEN [i \in 1..Len(groups) |-> PlaceholderDecision(groups[i])]
       ELSE [i \in 1..Len(groups) |-> DecisionAt(parsed.items, groups, i)]

-----------------------------------------------------------------------------
(* The bracket scanner: _find_balanced_array, app/decision/engine.py *)

\* A text is a sequence of one-character strings; Python's index k is
\* position k + 1 of the sequence.
CharAt(s, k) == s[k + 1]

\* s[a : b + 1]
Slice(s, a, b) == SubSeq(s, a + 1, b + 1)

\* The locals before the call.
NoScan ==
    [s |-> <<>>, start |-> 0, i |-> 0, depth |-> 0, in_string |-> FALSE,
     escape |-> FALSE, quote |-> "", done |-> FALSE, result |-> None]

\* Variant of ScanStep in which a backslash inside a string is a character
\* like any other.
ScanStepNoEscape(st) ==
    LET c == CharAt(st.s, st.i)
    IN IF st.in_string
       THEN [st EXCEPT !.in_string = (c # st.quote), !.i = st.i + 1]
       ELSE IF c \in {"\"", "'"}
       THEN [st EXCEPT !.in_string = TRUE, !.quote = c, !.i = st.i + 1]
       ELSE IF c = "["
       THEN [st EXCEPT !.depth = st.depth + 1, !.i = st.i + 1]
       ELSE IF c = "]"
       THEN (IF st.depth - 1 = 0
             THEN [st EXCEPT !.depth = 0, !.done = TRUE,
                             !.result = Some(Slice(st.s, st.start, st.i))]
             ELSE [st EXCEPT !.depth = st.depth - 1, !.i = st.i + 1])
       ELSE [st EXCEPT !.i = st.i + 1]

\* One pass through the body of the while loop; st.done is set by the return
\* inside the loop.
ScanStep(st) ==
    LET c == CharAt(st.s, st.i)
    IN IF st.escape
       THEN [st EXCEPT !.escape = FALSE, !.i = st.i + 1]
       ELSE IF c = "\\" /\ st.in_string
       THEN [st EXCEPT !.escape = TRUE, !.i = st.i + 1]
       ELSE IF st.in_string
       THEN [st EXCEPT !.in_string = (c # st.quote), !.i = st.i + 1]
       ELSE IF c \in {"\"", "'"}
       THEN [st EXCEPT !.in_string = TRUE, !.quote = c, !.i = st.i + 1]
       ELSE IF c = "["
       THEN [st EXCEPT !.depth = st.depth + 1, !.i = st.i + 1]
       ELSE IF c = "]"
       THEN (IF st.depth - 1 = 0
             THEN [st EXCEPT !.depth = 0, !.done = TRUE,
                             !.result = Some(Slice(st.s, st.start, st.i))]
             ELSE [st EXCEPT !.depth = st.depth - 1, !.i = st.i + 1])
       ELSE [st EXCEPT !.i = st.i + 1]

RECURSIVE ScanLoop(_)
\* while i < len(s) and depth > 0: ...; return None
ScanLoop(st) ==
    IF st.done THEN st
    ELSE IF st.i < Len(st.s) /\ st.depth > 0 THEN ScanLoop(ScanStep(st))
    ELSE [st EXCEPT !.done = TRUE, !.result = None]

\* _find_balanced_array(s, start): the locals at the return, result among them
\* (None, or Some(text)).
_find_balanced_array(s, start) ==
    IF start < 0 \/ start >= Len(s) \/ CharAt(s, start) # "["
    THEN [NoScan EXCEPT !.s = s, !.start = start, !.done = TRUE]
    ELSE ScanLoop([NoScan EXCEPT !.s = s, !.start = start, !.i = start + 1,
                                 !.depth = 1])

-----------------------------------------------------------------------------
(* Post-processing: app/decision/postprocessing.py *)

Other == <<Part("Other", None)>>

\* normalize_reason: a trailing "(N%)" goes, an empty text becomes "Other".
normalize_reason(reason) ==
    IF Strip(reason) = <<>> THEN Other
    ELSE [reason EXCEPT ![Len(reason)].score = None]

\* Variant of _normalize_category that folds no alias.
NormalizeCategoryNoAlias(cat) == Lower(IF cat # "" THEN cat ELSE "unknown")

\* _normalize_category
_normalize_category(cat) ==
    LET c == Lower(IF cat # "" THEN cat ELSE "unknown")
    IN IF c \in {"cab", "commute"} THEN "commute"
       ELSE IF c \in {"meal", "meals"} THEN "meal"
       ELSE c

\* group_decisions: the nested dict as a sequence of buckets
\* [name, category, month, items] in the order a walk over the dict meets
\* them (keys in order of first insertion at every level).
group_decisions(ds) ==
    LET NameOf(d) == <<d.employee_id, d.employee_name>>
        CatOf(d) == _normalize_category(d.category)
        MonthOf(d) == d.month
        OfName(name) ==
            LET HasName(d) == NameOf(d) = name
                mine == Filter(ds, HasName)
                OfCat(cat) ==
                    LET HasCat(d) == CatOf(d) = cat
                        in_cat == Filter(mine, HasCat)
                        OfMonth(month) ==
                            LET HasMonth(d) == MonthOf(d) = month
                            IN [name |-> name, category |-> cat, month |-> month,
                                items |-> Filter(in_cat, HasMonth)]
                    IN Map(Distinct(Map(in_cat, MonthOf)), OfMonth)
            IN Concat(Map(Distinct(Map(mine, CatOf)), OfCat))
    IN Concat(Map(Distinct(Map(ds, NameOf)), OfName))

\* Variant of BucketVerdict that rejects a bucket only when every item is a
\* REJECT.
BucketVerdictUnanimous(items) ==
    IF \A k \in 1..Len(items) : Upper(items[k].decision) = "REJECT"
    THEN "REJECT" ELSE "APPROVE"

\* "REJECT" if any_reject else "APPROVE"
BucketVerdict(items) ==
    IF \E k \in 1..Len(items) : Upper(items[k].decision) = "REJECT"
    THEN "REJECT" ELSE "APPROVE"

\* build_summary_from_grouped: one entry per bucket, in the order of the
\* buckets.  invalid_reasons, a list sorted by reason in the code, is the set
\* of its [reason, count] records here ({} when the key is absent).
build_summary_from_grouped(g) ==
    LET Entry(b) ==
            LET items == b.items
                Claimed(d) == d.claimed_amount
                Approved(d) == d.approved_amount
                NValid(d) == Len(d.valid_bill_ids)
                NInvalid(d) == Len(d.invalid_bill_ids)
                Recs(d) == LET R(es) == [reason |-> normalize_reason(es.reason),
                                         count |-> IF es.count # 0 THEN es.count
                                                   ELSE Len(es.bill_ids)]
                           IN Map(d.error_summary, R)
                recs == Concat(Map(items, Recs))
                ReasonOf(r) == r.reason
                CountOf(r) == r.count
                Counted(reason) ==
                    LET Same(r) == r.reason = reason
                    IN [reason |-> reason, count |-> SumOf(Map(Filter(recs, Same), CountOf))]
            IN [name |-> b.name, category |-> b.category, month |-> b.month,
                decision |-> BucketVerdict(items),
                claimed_amount |-> SumOf(Map(items, Claimed)),
                approved_amount |-> SumOf(Map(items, Approved)),
                currency |-> IF items # <<>> /\ items[1].currency # ""
                             THEN items[1].currency ELSE DefaultCurrency,
                valid_bill_count |-> SumOf(Map(items, NValid)),
                invalid_bill_count |-> SumOf(Map(items, NInvalid)),
                period_count |-> Len(items),
                invalid_reasons |-> Range(Map(Distinct(Map(recs, ReasonOf)), Counted))]
    IN Map(g, Entry)

\* _normalize_decision_for_output: claimed_amount dropped, category canonical
_normalize_decision_for_output(d) ==
    [f \in DOMAIN d \ {"claimed_amount"} |->
        IF f = "category" THEN _normalize_category(d.category) ELSE d[f]]

\* postprocessing_output.json before the first write.
NoPostFile == [exists |-> FALSE, by_employee |-> <<>>, decision_count |-> 0]

\* The by_employee section write_decision_outputs builds from its argument:
\* [key, decisions, summary] per employee key in order of first decision.
PostByEmployee(ds) ==
    LET KeyOf(d) == <<d.employee_id, d.employee_name>>
        sm == build_summary_from_grouped(group_decisions(ds))
        E(k) == LET Mine(d) == KeyOf(d) = k
                    Named(e) == e.name = k
                IN [key |-> k,
                    decisions |-> Map(Filter(ds, Mine), _normalize_decision_for_output),
                    summary |-> Filter(sm, Named)]
    IN Map(Distinct(Map(ds, KeyOf)), E)

\* write_decision_outputs: the file after the call.  Nothing is written for
\* an empty list; otherwise the file is opened with "w" and holds what this
\* call built.
write_decision_outputs(file, ds) ==
    IF ds = <<>> THEN file
    ELSE [exists |-> TRUE, by_employee |-> PostByEmployee(ds),
          decision_count |-> Len(ds)]

-----------------------------------------------------------------------------
(* Inputs *)

\* Longest decoded array the generator returns.
MaxOut == 2

Validation(is_valid, month_match, name_match, score) ==
    [has |-> TRUE, is_valid |-> is_valid, month_match |-> month_match,
     name_match |-> name_match, name_match_score |-> score,
     address_match |-> "absent", address_match_score |-> None]

Bill(owner, id, category, date, amount, currency, validation) ==
    [owner |-> owner, id |-> id, filename |-> <<id, "pdf">>, category |-> category,
     date |-> date, amount |-> Some(amount), reimbursable_amount |-> None,
     currency |-> currency, validation |-> validation]

Alice == <<"E1", "Alice">>
Bob == <<"E2", "Bob">>

\* The bills an extraction run can have produced; a run holds any subset.
\* p4 carries a date strptime rejects (31 February).
BillPool ==
    << Bill(Alice, "p1", "commute", <<5, 3, 2024>>, 3, "USD",
            Validation(TRUE, TRUE, TRUE, None)),
       Bill(Alice, "p2", "meal", <<5, 3, 2024>>, 3, "",
            Validation(TRUE, TRUE, TRUE, None)),
       Bill(Alice, "p3", "meal", <<5, 3, 2024>>, 2, "EUR",
            Validation(FALSE, FALSE, TRUE, None)),
       Bill(Bob, "p4", "meal", <<31, 2, 2024>>, 1, "",
            Validation(TRUE, TRUE, TRUE, None)) >>

\* The bills map holding the pool bills with index in S: employees in order
\* of first bill, employees without bills absent.
BillsMapOf(S) ==
    LET Chosen(b) == \E i \in S : BillPool[i] = b
        chosen == Filter(BillPool, Chosen)
        OwnerOf(b) == b.owner
        E(k) == LET Mine(b) == b.owner = k
                IN [key |-> k, bills |-> Filter(chosen, Mine)]
    IN Map(Distinct(Map(chosen, OwnerOf)), E)

\* The bills map holding the given bills: employees in order of first bill.
BillsMapFrom(chosen) ==
    LET OwnerOf(b) == b.owner
        E(k) == LET Mine(b) == b.owner = k
                IN [key |-> k, bills |-> Filter(chosen, Mine)]
    IN Map(Distinct(Map(chosen, OwnerOf)), E)

BillsMaps == {BillsMapOf(S) : S \in SUBSET (DOMAIN BillPool)}

\* Two more bills: an invalid fuel bill without a date, alone in its group,
\* and a ride filed under "cab".
FuelNoDate ==
    Bill(Bob, "p5", "fuel", None, 3, "", Validation(FALSE, TRUE, FALSE, Some(57)))

CabRide ==
    Bill(Alice, "p6", "cab", <<5, 3, 2024>>, 3, "", Validation(TRUE, TRUE, TRUE, None))

ExtraBillsMaps ==
    {BillsMapFrom(<<FuelNoDate>>), BillsMapFrom(<<CabRide>>),
     BillsMapFrom(<<CabRide, FuelNoDate>>)}

\* policy["meal_allowance"]["limit"]: absent, zero, or a cap between the
\* daily totals of the pool
Limits == {None, Some(0), Some(2)}

LLMReason == <<Part("Receipt unreadable", None)>>

\* A generator object that fills every field with values of its own: ids,
\* amounts, currency, month, date, employee and category that no group has.
Lying(verdict) ==
    [obj |-> TRUE, bad |-> "", decision |-> verdict, employee_id |-> "E9",
     employee_name |-> "Mallory", category |-> "fuel",
     valid_bill_ids |-> <<"p2">>, invalid_bill_ids |-> <<"p3", "zz">>,
     invalid_bill_reasons |-> <<[bill_id |-> "p3", reason |-> LLMReason]>>,
     claimed_amount |-> Some(999), approved_amount |-> Some(999), currency |-> "XXX",
     daily_limit |-> Some(999), reimbursable_daily_total |-> Some(999),
     daily_total_exceeds_limit |-> Some(FALSE),
     month |-> <<2099, 12>>, date |-> <<1, 1, 2099>>, reasons |-> "llm"]

NotAnObject == [EmptyObject EXCEPT !.obj = FALSE]
BadDecision == [Lying("APPROVE") EXCEPT !.bad = "decision"]
BadReasons == [Lying("APPROVE") EXCEPT !.bad = "invalid_bill_reasons"]

\* An object whose reasons for its invalid ids are blanks.
BlankReasons ==
    [Lying("APPROVE") EXCEPT
        !.invalid_bill_reasons = <<[bill_id |-> "p3", reason |-> Blank],
                                   [bill_id |-> "zz", reason |-> Blank]>>]

\* Array elements the generator returns.
Elements ==
    { NotAnObject, EmptyObject, Lying("APPROVE"), Lying("reject"),
      [EmptyObject EXCEPT !.decision = "REJECT"], BadDecision, BadReasons,
      BlankReasons }

SeqsUpTo(S, n) == UNION {[1..k -> S] : k \in 0..n}

\* What the generator returns: an empty text, text without JSON, a JSON
\* scalar, an object without "decisions", an object whose "decisions" is no
\* array, a bare array, an object with a "decisions" array.
OutputsOver(E) ==
    {[kind |-> k, items |-> <<>>] :
        k \in {"empty", "text", "scalar", "object", "decisions_not_list"}}
    \cup {[kind |-> k, items |-> s] : k \in {"array", "decisions"}, s \in SeqsUpTo(E, MaxOut)}

Outputs == OutputsOver(Elements)

NoOutput == [kind |-> "none", items |-> <<>>]

-----------------------------------------------------------------------------
(* DecisionEngine.run and run_with_prepared: app/decision/engine.py *)

\* write_engine_output: the file name depends on the category argument
\* ("" when absent); writing replaces the file of that name.
RawFileName(category) == <<"engine_raw_output", category>>

write_engine_output(files, raw, category) ==
    {f \in files : f.name # RawFileName(category)}
    \cup {[name |-> RawFileName(category), content |-> raw]}

\* The category DecisionEngine passes to write_engine_output: run passes
\* none, run_with_prepared passes its category argument.
RawCategory(e, category) == IF e = "run" THEN "" ELSE category

\* Variant of AfterResponse that calls the generator again when its answer
\* holds no decision list.
RetryWhenUnparsable(out) ==
    IF _extract_decisions_from_llm_output(out).ok THEN "parse" ELSE "invoke"

\* Where a run goes after the generator answered: always on to the parse.
AfterResponse(out) == "parse"

EngineVars == <<bills_map, policy_limit, category_filter, entry>>
PairVars == <<alt_output, alt_decisions>>
AppVars == <<all_bills, app_pc, cat_idx, all_decisions>>
PrepVars == <<rag, filtered_map, prep_file, prep_calls, prep_steps>>
PostVars == <<post_file, post_calls, grouped, summary>>

\* run, up to the generator call: pre-processing, early return on no groups,
\* write_preprocessing_output.
RunPreprocess ==
    /\ pc = "start" /\ entry = "run"
    /\ LET pre == run_preprocessing(bills_map, policy_limit, category_filter, rag)
       IN /\ groups_data' = pre.groups
          /\ save_data' = pre.save
          /\ IF pre.groups = <<>>
             THEN /\ pc' = "returned"
                  /\ UNCHANGED <<prep_written, prep_file, prep_calls>>
             ELSE /\ pc' = "invoke"
                  /\ prep_written' = prep_written + 1
                  /\ prep_file' = write_preprocessing_output(prep_file, pre.groups,
                                                             pre.save)
                  /\ prep_calls' = Append(prep_calls,
                                          [groups |-> pre.groups, save |-> pre.save])
    /\ filtered_map' = filter_bills_by_category(bills_map, category_filter)
    /\ prep_steps' = StepsOfPreprocessing(bills_map, policy_limit, category_filter)
    /\ returned' = <<>>
    /\ UNCHANGED <<PostVars, scan, raw_log, EngineVars, raw_output, decisions, llm_calls, raw_files, copied,
                   PairVars, AppVars, rag>>

\* run_with_prepared, up to the generator call.
PreparedStart ==
    /\ pc = "start" /\ entry = "run_with_prepared"
    /\ pc' = IF groups_data = <<>> THEN "returned" ELSE "invoke"
    /\ returned' = <<>>
    /\ UNCHANGED <<PostVars, scan, raw_log, EngineVars, groups_data, save_data, raw_output, decisions,
                   llm_calls, raw_files, prep_written, PrepVars, copied, PairVars, AppVars>>

\* _invoke_decision_llm returns a text.
InvokeLLM(Outs) ==
    /\ pc = "invoke"
    /\ \E out \in Outs :
          /\ raw_output' = out
          /\ pc' = AfterResponse(out)
    /\ llm_calls' = llm_calls + 1
    /\ UNCHANGED <<PostVars, scan, raw_log, EngineVars, groups_data, save_data, decisions, raw_files,
                   prep_written, PrepVars, copied, returned, PairVars, AppVars>>

\* chain.invoke raises: nothing in run, run_with_prepared or
\* _invoke_decision_llm catches it.
InvokeLLMRaises ==
    /\ pc = "invoke"
    /\ llm_calls' = llm_calls + 1
    /\ pc' = "raised"
    /\ UNCHANGED <<PostVars, scan, raw_log, EngineVars, groups_data, save_data, raw_output, decisions,
                   raw_files, prep_written, PrepVars, copied, returned, PairVars, AppVars>>

\* The rest of the run: parse and enrich, write the raw output, copy the
\* files, return the decisions.
FinishRun ==
    /\ pc = "parse"
    /\ decisions' = _parse_and_enrich_decisions(raw_output, groups_data)
    /\ raw_files' = write_engine_output(raw_files, raw_output,
                                        RawCategory(entry, category_filter))
    /\ raw_log' = Append(raw_log, [category |-> category_filter, content |-> raw_output])
    /\ copied' = save_data
    /\ returned' = decisions'
    /\ pc' = "returned"
    /\ UNCHANGED <<PostVars, scan, EngineVars, groups_data, save_data, raw_output, llm_calls,
                   prep_written, PrepVars, PairVars, AppVars>>

\* One engine run called directly, with any bills, limit, filter and entry
\* point; run_with_prepared receives the groups run_preprocessing built.
Init ==
    /\ bills_map \in BillsMaps \cup ExtraBillsMaps
    /\ policy_limit \in Limits
    /\ rag = "off"
    /\ category_filter \in {"", "meal"}
    /\ entry \in {"run", "run_with_prepared"}
    /\ pc = "start"
    /\ groups_data = IF entry = "run" THEN <<>>
                     ELSE run_preprocessing(bills_map, policy_limit, category_filter, rag).groups
    /\ save_data = IF entry = "run" THEN <<>>
                   ELSE run_preprocessing(bills_map, policy_limit, category_filter, rag).save
    /\ raw_output = NoOutput
    /\ decisions = <<>>
    /\ llm_calls = 0
    /\ raw_files = {}
    /\ prep_written = 0
    /\ copied = <<>>
    /\ returned = <<>>
    /\ alt_output = NoOutput
    /\ alt_decisions = <<>>
    /\ all_bills = <<>>
    /\ app_pc = "none"
    /\ cat_idx = 0
    /\ all_decisions = <<>>
    /\ filtered_map = <<>>
    /\ prep_file = NoFile
    /\ prep_calls = <<>>
    /\ prep_steps = NoSteps
    /\ post_file = NoPostFile
    /\ post_calls = <<>>
    /\ grouped = <<>>
    /\ summary = <<>>
    /\ scan = NoScan
    /\ raw_log = <<>>

Next ==
    \/ RunPreprocess
    \/ PreparedStart
    \/ InvokeLLM(Outputs)
    \/ InvokeLLMRaises
    \/ FinishRun

Spec == Init /\ [][Next]_vars

-----------------------------------------------------------------------------
(* Two outputs for the same groups: _parse_and_enrich_decisions applied to   *)
(* each, to compare what the generator can and cannot influence.             *)

PairElements == {EmptyObject, Lying("APPROVE"), Lying("reject"), BadReasons}

PairOutputs ==
    {[kind |-> "text", items |-> <<>>]}
    \cup {[kind |-> "array", items |-> s] : s \in SeqsUpTo(PairElements, MaxOut)}

InitPair ==
    /\ bills_map \in BillsMaps
    /\ policy_limit \in Limits
    /\ rag = "off"
    /\ category_filter = ""
    /\ entry = "pair"
    /\ pc = "pair"
    /\ groups_data = run_preprocessing(bills_map, policy_limit, category_filter, rag).groups
    /\ save_data = run_preprocessing(bills_map, policy_limit, category_filter, rag).save
    /\ raw_output = NoOutput
    /\ decisions = <<>>
    /\ llm_calls = 0
    /\ raw_files = {}
    /\ prep_written = 0
    /\ copied = <<>>
    /\ returned = <<>>
    /\ alt_output = NoOutput
    /\ alt_decisions = <<>>
    /\ all_bills = <<>>
    /\ app_pc = "none"
    /\ cat_idx = 0
    /\ all_decisions = <<>>
    /\ filtered_map = <<>>
    /\ prep_file = NoFile
    /\ prep_calls = <<>>
    /\ prep_steps = NoSteps
    /\ post_file = NoPostFile
    /\ post_calls = <<>>
    /\ grouped = <<>>
    /\ summary = <<>>
    /\ scan = NoScan
    /\ raw_log = <<>>

PairEvaluate ==
    /\ pc = "pair"
    /\ \E o1 \in PairOutputs, o2 \in PairOutputs :
          /\ raw_output' = o1
          /\ alt_output' = o2
          /\ decisions' = _parse_and_enrich_decisions(o1, groups_data)
          /\ alt_decisions' = _parse_and_enrich_decisions(o2, groups_data)
    /\ pc' = "paired"
    /\ UNCHANGED <<PostVars, scan, raw_log, EngineVars, groups_data, save_data, llm_calls, raw_files,
                   prep_written, PrepVars, copied, returned, AppVars>>

NextPair == PairEvaluate

SpecPair == InitPair /\ [][NextPair]_vars

-----------------------------------------------------------------------------
(* The orchestrator: BillDeskApp._run_decision_engine_per_category and the   *)
(* end of BillDeskApp.run, src/src/app.py                                    *)

Categories == <<"commute", "meal", "fuel">>

\* bills_for_cat: the bills of one category, employees without any dropped
bills_for_cat(ab, category) ==
    LET Keep(b) == Lower(b.category) = category
        F(e) == [key |-> e.key, bills |-> Filter(e.bills, Keep)]
        NonEmpty(e) == e.bills # <<>>
    IN Filter(Map(ab, F), NonEmpty)

AppElements == {Lying("APPROVE"), Lying("reject")}

AppOutputs ==
    {[kind |-> "text", items |-> <<>>]}
    \cup {[kind |-> "array", items |-> s] : s \in SeqsUpTo(AppElements, MaxOut)}

RunVars == <<groups_data, save_data, raw_output, decisions, llm_calls, copied, returned>>

InitApp ==
    /\ all_bills \in BillsMaps
    /\ policy_limit \in Limits
    /\ rag = "off"
    /\ app_pc = "loop"
    /\ cat_idx = 1
    /\ all_decisions = <<>>
    /\ bills_map = <<>>
    /\ category_filter = ""
    /\ entry = "run"
    /\ pc = "idle"
    /\ groups_data = <<>>
    /\ save_data = <<>>
    /\ raw_output = NoOutput
    /\ decisions = <<>>
    /\ llm_calls = 0
    /\ raw_files = {}
    /\ prep_written = 0
    /\ copied = <<>>
    /\ returned = <<>>
    /\ alt_output = NoOutput
    /\ alt_decisions = <<>>
    /\ filtered_map = <<>>
    /\ prep_file = NoFile
    /\ prep_calls = <<>>
    /\ prep_steps = NoSteps
    /\ post_file = NoPostFile
    /\ post_calls = <<>>
    /\ grouped = <<>>
    /\ summary = <<>>
    /\ scan = NoScan
    /\ raw_log = <<>>

\* `continue`: the category has no bills
AppSkipCategory ==
    /\ app_pc = "loop" /\ pc = "idle" /\ cat_idx <= Len(Categories)
    /\ bills_for_cat(all_bills, Categories[cat_idx]) = <<>>
    /\ cat_idx' = cat_idx + 1
    /\ UNCHANGED <<PostVars, scan, raw_log, EngineVars, pc, RunVars, raw_files, prep_written, PrepVars, PairVars,
                   all_bills, app_pc, all_decisions>>

\* self.decision_engine.run(bills_for_cat, policy, category_filter=category)
AppCallRun ==
    /\ app_pc = "loop" /\ pc = "idle" /\ cat_idx <= Len(Categories)
    /\ bills_for_cat(all_bills, Categories[cat_idx]) # <<>>
    /\ bills_map' = bills_for_cat(all_bills, Categories[cat_idx])
    /\ category_filter' = Categories[cat_idx]
    /\ entry' = "run"
    /\ pc' = "start"
    /\ groups_data' = <<>> /\ save_data' = <<>> /\ raw_output' = NoOutput
    /\ decisions' = <<>> /\ llm_calls' = 0 /\ copied' = <<>> /\ returned' = <<>>
    /\ UNCHANGED <<PostVars, scan, raw_log, policy_limit, raw_files, prep_written, PrepVars, PairVars, AppVars>>

\* all_decisions.extend(decisions_cat)
AppCollect ==
    /\ app_pc = "loop" /\ pc = "returned"
    /\ all_decisions' = all_decisions \o returned
    /\ cat_idx' = cat_idx + 1
    /\ pc' = "idle"
    /\ UNCHANGED <<PostVars, scan, raw_log, EngineVars, RunVars, raw_files, prep_written, PrepVars, PairVars,
                   all_bills, app_pc>>

\* An exception of run leaves the loop, _run_decision_engine_per_category and
\* BillDeskApp.run: no handler on the way.
AppPropagate ==
    /\ app_pc = "loop" /\ pc = "raised"
    /\ app_pc' = "crashed"
    /\ UNCHANGED <<PostVars, scan, raw_log, EngineVars, pc, RunVars, raw_files, prep_written, PrepVars, PairVars,
                   all_bills, cat_idx, all_decisions>>

\* The loop is over: _write_decisions(decisions) and the end of the run.
AppWriteDecisions ==
    /\ app_pc = "loop" /\ pc = "idle" /\ cat_idx > Len(Categories)
    /\ app_pc' = "done"
    /\ UNCHANGED <<PostVars, scan, raw_log, EngineVars, pc, RunVars, raw_files, prep_written, PrepVars, PairVars,
                   all_bills, cat_idx, all_decisions>>

NextApp ==
    \/ AppSkipCategory
    \/ AppCallRun
    \/ RunPreprocess
    \/ InvokeLLM(AppOutputs)
    \/ InvokeLLMRaises
    \/ FinishRun
    \/ AppCollect
    \/ AppPropagate
    \/ AppWriteDecisions

SpecApp == InitApp /\ [][NextApp]_vars

-----------------------------------------------------------------------------
(* Pre-processing on its own: run_preprocessing and                          *)
(* write_preprocessing_output called for one category after another, or      *)
(* twice for the same one, against one output directory.                     *)

\* Most write_preprocessing_output calls against one output directory.
MaxWrites == 2

NoValidation == [Validation(FALSE, TRUE, TRUE, None) EXCEPT !.has = FALSE]

\* Bills of two employees: per-diem bills on two days, an invalid one on a
\* day of its own, one without a date, one with a reimbursable amount below
\* its amount; "cab" bills of two months, one without a validation record
\* and the only one of the two with a currency; a
\* bill filed under "MEAL" and one under a category nobody knows.
PrepPool ==
    << [Bill(Alice, "q1", "meal", <<5, 3, 2024>>, 3, "USD",
             Validation(TRUE, TRUE, TRUE, None)) EXCEPT !.reimbursable_amount = Some(2)],
       Bill(Alice, "q2", "meal", <<6, 3, 2024>>, 1, "",
            Validation(TRUE, TRUE, TRUE, None)),
       Bill(Alice, "q3", "meal", <<7, 3, 2024>>, 2, "",
            Validation(FALSE, FALSE, TRUE, None)),
       Bill(Alice, "q4", "meal", None, 4, "",
            Validation(TRUE, TRUE, TRUE, None)),
       Bill(Alice, "q5", "cab", <<5, 3, 2024>>, 3, "",
            Validation(TRUE, TRUE, TRUE, None)),
       Bill(Alice, "q6", "cab", <<9, 4, 2024>>, 2, "EUR", NoValidation),
       Bill(Bob, "q7", "MEAL", <<5, 3, 2024>>, 5, "",
            Validation(TRUE, TRUE, TRUE, None)),
       Bill(Bob, "q8", "unknown", None, 1, "",
            Validation(TRUE, TRUE, TRUE, None)) >>

PrepBillsMaps ==
    {BillsMapFrom(LET In(b) == \E i \in S : PrepPool[i] = b IN Filter(PrepPool, In)) :
        S \in SUBSET (DOMAIN PrepPool)}

\* policy["meal_allowance"]["limit"] may also hold a text that is no number.
PrepLimits == Limits \cup {<<"text", "n/a">>}

\* Category filters of a run: none, and two spellings.
PrepFilters == {"", "meal", "Cab"}

InitPrep ==
    /\ bills_map \in PrepBillsMaps
    /\ policy_limit \in PrepLimits
    /\ rag \in {"off", "on"}
    /\ category_filter = ""
    /\ entry = "prep"
    /\ pc = "prep_idle"
    /\ groups_data = <<>>
    /\ save_data = <<>>
    /\ raw_output = NoOutput
    /\ decisions = <<>>
    /\ llm_calls = 0
    /\ raw_files = {}
    /\ prep_written = 0
    /\ copied = <<>>
    /\ returned = <<>>
    /\ alt_output = NoOutput
    /\ alt_decisions = <<>>
    /\ all_bills = <<>>
    /\ app_pc = "none"
    /\ cat_idx = 0
    /\ all_decisions = <<>>
    /\ filtered_map = <<>>
    /\ prep_file = NoFile
    /\ prep_calls = <<>>
    /\ prep_steps = NoSteps
    /\ post_file = NoPostFile
    /\ post_calls = <<>>
    /\ grouped = <<>>
    /\ summary = <<>>
    /\ scan = NoScan
    /\ raw_log = <<>>

PrepIdleVars == <<bills_map, policy_limit, entry, raw_output, decisions, llm_calls, raw_files, copied, returned, PairVars, AppVars, rag>>

\* run_preprocessing(bills_map, policy, category_filter)
PrepRun ==
    /\ pc \in {"prep_idle", "written"}
    /\ prep_written < MaxWrites
    /\ \E f \in PrepFilters :
          /\ category_filter' = f
          /\ filtered_map' = filter_bills_by_category(bills_map, f)
          /\ prep_steps' = StepsOfPreprocessing(bills_map, policy_limit, f)
          /\ groups_data' = run_preprocessing(bills_map, policy_limit, f, rag).groups
          /\ save_data' = run_preprocessing(bills_map, policy_limit, f, rag).save
    /\ pc' = "prepared"
    /\ UNCHANGED <<PostVars, scan, raw_log, PrepIdleVars, prep_written, prep_file, prep_calls>>

\* `if not groups_data: return []`: nothing is written
PrepNothing ==
    /\ pc = "prepared" /\ groups_data = <<>>
    /\ pc' = "prep_idle"
    /\ UNCHANGED <<PostVars, scan, raw_log, PrepIdleVars, category_filter, filtered_map, groups_data,
                   save_data, prep_written, prep_file, prep_calls, prep_steps>>

\* write_preprocessing_output(groups_data, save_data, output_dir, model_name),
\* for the groups just prepared or once more for the groups just written
PrepWrite ==
    /\ pc \in {"prepared", "written"} /\ groups_data # <<>>
    /\ prep_written < MaxWrites
    /\ prep_file' = write_preprocessing_output(prep_file, groups_data, save_data)
    /\ prep_calls' = Append(prep_calls, [groups |-> groups_data, save |-> save_data])
    /\ prep_written' = prep_written + 1
    /\ pc' = "written"
    /\ UNCHANGED <<PostVars, scan, raw_log, PrepIdleVars, category_filter, filtered_map, groups_data,
                   save_data, prep_steps>>

NextPrep ==
    \/ PrepRun
    \/ PrepNothing
    \/ PrepWrite

SpecPrep == InitPrep /\ [][NextPrep]_vars

-----------------------------------------------------------------------------
(* A caller of the package API: DecisionEngine.run over all bills, then       *)
(* write_decision_outputs for the decisions returned, then the same for one  *)
(* category run again, against one output directory.                         *)

\* The category_filter of the first and of the second run.
PostPlan == <<"", "meal">>

\* A ride filed under "commute" and one under "cab", a valid per-diem bill
\* and an invalid one (name mismatch, 57%) of one day, and a bill filed under
\* "meals", all of one employee and month.
PostPool ==
    << BillPool[1], CabRide, BillPool[2],
       Bill(Alice, "p3", "meal", <<5, 3, 2024>>, 2, "EUR",
            Validation(FALSE, TRUE, FALSE, Some(57))),
       Bill(Alice, "p7", "meals", <<5, 3, 2024>>, 1, "",
            Validation(TRUE, TRUE, TRUE, None)) >>

PostBillsMaps ==
    {BillsMapFrom(LET In(b) == \E i \in S : PostPool[i] = b IN Filter(PostPool, In)) :
        S \in SUBSET (DOMAIN PostPool)}

PostLimits == {None, Some(2)}

\* A generator object that repeats the identity, category and bill ids of
\* its group and gives no reasons.
Echo(g, verdict) ==
    [EmptyObject EXCEPT !.decision = verdict, !.employee_id = g.employee_id,
                        !.employee_name = g.employee_name, !.category = g.category,
                        !.valid_bill_ids = g.valid_bills,
                        !.invalid_bill_ids = g.invalid_bills, !.reasons = "ok"]

\* What the generator returns for the given groups: an array of at most
\* MaxOut objects, each the approving or the rejecting echo of its group or
\* a rejecting object with values of its own.
PostOutputs(groups) ==
    {[kind |-> "array",
      items |-> [i \in 1..Len(f) |-> IF f[i] = "own" THEN Lying("reject")
                                     ELSE Echo(groups[i], f[i])]] :
        f \in SeqsUpTo({"APPROVE", "reject", "own"}, Min(MaxOut, Len(groups)))}

\* The decisions with their categories in another letter case, as a caller
\* may hold them that read them back from elsewhere.
Respelled(ds) ==
    LET R(d) == [d EXCEPT !.category = CASE @ = "cab" -> "Cab"
                                         [] @ = "commute" -> "Commute"
                                         [] @ = "meal" -> "MEAL"
                                         [] OTHER -> @]
    IN Map(ds, R)

InitPost ==
    /\ bills_map \in PostBillsMaps
    /\ policy_limit \in PostLimits
    /\ rag = "off"
    /\ category_filter = ""
    /\ entry = "run"
    /\ pc = "idle"
    /\ app_pc = "post"
    /\ cat_idx = 1
    /\ groups_data = <<>>
    /\ save_data = <<>>
    /\ raw_output = NoOutput
    /\ decisions = <<>>
    /\ llm_calls = 0
    /\ raw_files = {}
    /\ prep_written = 0
    /\ copied = <<>>
    /\ returned = <<>>
    /\ alt_output = NoOutput
    /\ alt_decisions = <<>>
    /\ all_bills = <<>>
    /\ all_decisions = <<>>
    /\ filtered_map = <<>>
    /\ prep_file = NoFile
    /\ prep_calls = <<>>
    /\ prep_steps = NoSteps
    /\ post_file = NoPostFile
    /\ post_calls = <<>>
    /\ grouped = <<>>
    /\ summary = <<>>
    /\ scan = NoScan
    /\ raw_log = <<>>

\* engine.run(bills_map, policy, category_filter=...)
PostCallRun ==
    /\ app_pc = "post" /\ pc = "idle" /\ cat_idx <= Len(PostPlan)
    /\ category_filter' = PostPlan[cat_idx]
    /\ pc' = "start"
    /\ groups_data' = <<>> /\ save_data' = <<>> /\ raw_output' = NoOutput
    /\ decisions' = <<>> /\ llm_calls' = 0 /\ copied' = <<>> /\ returned' = <<>>
    /\ UNCHANGED <<PostVars, scan, raw_log, bills_map, policy_limit, entry, raw_files,
                   prep_written, PrepVars, PairVars, AppVars>>

\* write_decision_outputs(decisions, output_dir, model_name) for the
\* decisions the run returned, in the engine's spelling or respelled
PostWrite ==
    /\ app_pc = "post" /\ pc = "returned"
    /\ \E ds \in {returned, Respelled(returned)} :
          /\ post_calls' = Append(post_calls, ds)
          /\ post_file' = write_decision_outputs(post_file, ds)
          /\ grouped' = IF ds = <<>> THEN <<>> ELSE group_decisions(ds)
          /\ summary' = IF ds = <<>> THEN <<>>
                        ELSE build_summary_from_grouped(group_decisions(ds))
    /\ cat_idx' = cat_idx + 1
    /\ pc' = "idle"
    /\ UNCHANGED <<scan, raw_log, EngineVars, RunVars, raw_files, prep_written, PrepVars,
                   PairVars, all_bills, app_pc, all_decisions>>

NextPost ==
    \/ PostCallRun
    \/ RunPreprocess
    \/ InvokeLLM(PostOutputs(groups_data))
    \/ InvokeLLMRaises
    \/ FinishRun
    \/ PostWrite

SpecPost == InitPost /\ [][NextPost]_vars

-----------------------------------------------------------------------------
(* _find_balanced_array called on its own, on any short text of brackets,    *)
(* quotes and backslashes, at any index.                                     *)

\* Longest text scanned.
MaxLen == 5

ScanChars == {"[", "]", "\"", "'", "\\"}

ScanTexts == SeqsUpTo(ScanChars, MaxLen)

InitScan ==
    /\ scan \in {[NoScan EXCEPT !.s = s, !.start = k] :
                    s \in ScanTexts, k \in -1..MaxLen}
    /\ scan.start <= Len(scan.s)
    /\ pc = "scan"
    /\ entry = "scan"
    /\ bills_map = <<>>
    /\ policy_limit = None
    /\ rag = "off"
    /\ category_filter = ""
    /\ groups_data = <<>>
    /\ save_data = <<>>
    /\ raw_output = NoOutput
    /\ decisions = <<>>
    /\ llm_calls = 0
    /\ raw_files = {}
    /\ prep_written = 0
    /\ copied = <<>>
    /\ returned = <<>>
    /\ alt_output = NoOutput
    /\ alt_decisions = <<>>
    /\ all_bills = <<>>
    /\ app_pc = "none"
    /\ cat_idx = 0
    /\ all_decisions = <<>>
    /\ filtered_map = <<>>
    /\ prep_file = NoFile
    /\ prep_calls = <<>>
    /\ prep_steps = NoSteps
    /\ post_file = NoPostFile
    /\ post_calls = <<>>
    /\ grouped = <<>>
    /\ summary = <<>>
    /\ raw_log = <<>>

\* _find_balanced_array(s, start), from the call to the return
ScanCall ==
    /\ pc = "scan"
    /\ scan' = _find_balanced_array(scan.s, scan.start)
    /\ pc' = "scanned"
    /\ UNCHANGED <<PostVars, raw_log, EngineVars, groups_data, save_data, raw_output,
                   decisions, llm_calls, raw_files, prep_written, PrepVars, copied,
                   returned, PairVars, AppVars>>

NextScan == ScanCall

SpecScan == InitScan /\ [][NextScan]_vars

-----------------------------------------------------------------------------
(* Properties *)

\* The verdict equals REJECT, compared without regard to case.
IsReject(v) == v \in {"REJECT", "reject", "Reject"}

\* The output holds no decision list at all.
Unparsable(out) == out.kind \in {"empty", "text", "scalar", "object", "decisions_not_list"}

\* All bill ids of a group.
GroupIds(g) == Range(g.valid_bills) \cup Range(g.invalid_bills)

Returned == pc = "returned" /\ groups_data # <<>>

N == Len(groups_data)
K == Len(raw_output.items)

\* C1: whatever the generator returned, the run yields exactly one decision
\* per group, and decision i carries the month, the date and the amounts of
\* group i (daily and monthly total, the claimed amount they give, and the
\* limit fields the group has); elements beyond the number of groups are
\* dropped.
C1_OneDecisionPerGroup ==
    Returned =>
        /\ Len(decisions) = N
        /\ \A i \in 1..N :
              /\ decisions[i].month = groups_data[i].month
              /\ decisions[i].date = groups_data[i].date
              /\ decisions[i].daily_total = groups_data[i].daily_total
              /\ decisions[i].monthly_total = groups_data[i].monthly_total
              /\ decisions[i].claimed_amount
                    = IF groups_data[i].category = PerDiemCategory
                      THEN IF groups_data[i].daily_total = None THEN 0
                           ELSE groups_data[i].daily_total[1]
                      ELSE groups_data[i].monthly_total[1]
              /\ groups_data[i].daily_limit # None =>
                    /\ decisions[i].daily_limit = groups_data[i].daily_limit
                    /\ decisions[i].reimbursable_daily_total
                          = groups_data[i].reimbursable_daily_total

\* More elements than groups, written with a month and a date of their own.
W_C1 ==
    /\ Returned
    /\ raw_output.kind = "decisions"
    /\ K > N
    /\ raw_output.items[1] = Lying("APPROVE")
    /\ decisions[1].decision = "APPROVE"

\* C2: a decision whose verdict is REJECT in any letter case has no valid
\* bill ids and an approved amount of 0.
C2_RejectApprovesNothing ==
    Returned =>
        \A i \in 1..Len(decisions) :
            IsReject(decisions[i].decision) =>
                /\ decisions[i].valid_bill_ids = <<>>
                /\ decisions[i].approved_amount = 0

\* The generator wrote "reject" together with valid ids and an approved
\* amount.
W_C2 ==
    /\ Returned
    /\ K >= 1
    /\ raw_output.items[1] = Lying("reject")
    /\ decisions[1].decision = "reject"
    /\ ~decisions[1].parse_failed

\* C3: every decision with verdict REJECT lists all bill ids of its group,
\* valid and invalid, in invalid_bill_ids.
X_C3_RejectListsAllGroupIds ==
    Returned =>
        \A i \in 1..Len(decisions) :
            IsReject(decisions[i].decision) =>
                GroupIds(groups_data[i]) \subseteq Range(decisions[i].invalid_bill_ids)

\* C4: a decision that is not REJECT approves the group's capped daily total
\* for the per-diem category and its monthly total otherwise, for every limit.
X_C4_ApprovedAmountFromGroup ==
    Returned =>
        \A i \in 1..Len(decisions) :
            ~IsReject(decisions[i].decision) =>
                LET g == groups_data[i]
                IN IF g.category = PerDiemCategory
                   THEN g.reimbursable_daily_total # None =>
                           decisions[i].approved_amount = g.reimbursable_daily_total[1]
                   ELSE decisions[i].approved_amount = g.monthly_total[1]

\* The fields C5 is about.
Ledger(d) ==
    [claimed_amount |-> d.claimed_amount, approved_amount |-> d.approved_amount,
     currency |-> d.currency, month |-> d.month, date |-> d.date,
     daily_total |-> d.daily_total, monthly_total |-> d.monthly_total,
     confidence_score |-> d.confidence_score, manual_review |-> d.manual_review]

\* The verdict class an output gives at position i: "reject" or "other" for
\* an object there, "none" when it has no object at i.
GivenClass(out, i) ==
    IF Unparsable(out) \/ i > Len(out.items) THEN "none"
    ELSE IF ~out.items[i].obj THEN "none"
    ELSE IF out.items[i].bad # "decision" /\ IsReject(out.items[i].decision) THEN "reject"
    ELSE "other"

Paired == pc = "paired"

\* C5 as stated: two outputs giving the same verdict class at every position
\* yield the same ledger fields at every position.
X_C5_SameGivenClassSameLedger ==
    Paired =>
        ((\A i \in 1..N : GivenClass(raw_output, i) = GivenClass(alt_output, i))
            => \A i \in 1..N : Ledger(decisions[i]) = Ledger(alt_decisions[i]))

\* C5, amended: two outputs whose returned decisions have the same verdict
\* class at every position yield the same ledger fields at every position.
C5_SameVerdictClassSameLedger ==
    Paired =>
        /\ Len(decisions) = Len(alt_decisions)
        /\ ((\A i \in 1..N :
                IsReject(decisions[i].decision) = IsReject(alt_decisions[i].decision))
            => \A i \in 1..N : Ledger(decisions[i]) = Ledger(alt_decisions[i]))

\* One output approves with amounts, currency, month and date of its own,
\* the other approves without any.
W_C5 ==
    /\ Paired
    /\ N >= 1
    /\ raw_output.kind = "array" /\ alt_output.kind = "array"
    /\ K >= 1 /\ Len(alt_output.items) >= 1
    /\ raw_output.items[1] = Lying("APPROVE")
    /\ alt_output.items[1] = EmptyObject
    /\ ~IsReject(decisions[1].decision) /\ ~IsReject(alt_decisions[1].decision)
    /\ decisions[1].approved_amount > 0

\* C6: an output without any decision list gives one decision per group,
\* each REJECT, parse_failed and manual_review.
X_C6_UnparsableAllManualReview ==
    (Returned /\ Unparsable(raw_output)) =>
        /\ Len(decisions) = N
        /\ \A i \in 1..N :
              /\ decisions[i].decision = "REJECT"
              /\ decisions[i].parse_failed
              /\ decisions[i].manual_review

\* An object element whose enrichment goes through.
WellFormed(e) == e.obj /\ ~EnrichRaises(e)

\* C7: with fewer elements than groups, the first decisions come from the
\* elements in order, and every group past the last element gets a REJECT
\* parse_failed placeholder listing all its bill ids as invalid.
C7_MissingElementsPadded ==
    (Returned /\ ~Unparsable(raw_output) /\ K < N) =>
        /\ \A i \in 1..K :
              WellFormed(raw_output.items[i]) =>
                  /\ decisions[i].decision = raw_output.items[i].decision
                  /\ decisions[i].reasons = raw_output.items[i].reasons
                  /\ ~decisions[i].parse_failed
        /\ \A i \in (K + 1)..N :
              /\ decisions[i].decision = "REJECT"
              /\ decisions[i].parse_failed
              /\ decisions[i].valid_bill_ids = <<>>
              /\ decisions[i].invalid_bill_ids
                    = groups_data[i].valid_bills \o groups_data[i].invalid_bills

\* Two different elements for three groups, the third with a valid bill.
W_C7 ==
    /\ Returned
    /\ raw_output.kind = "decisions"
    /\ K = 2 /\ N = 3
    /\ raw_output.items[1] = Lying("APPROVE")
    /\ raw_output.items[2] = EmptyObject
    /\ groups_data[3].valid_bills # <<>>
    /\ decisions[3].parse_failed

\* Position i holds no object of the generator that could be enriched.
NotFromGenerator(out, i) ==
    \/ Unparsable(out)
    \/ i > Len(out.items)
    \/ ~WellFormed(out.items[i])

\* C8: a decision that does not come from a valid generator object is REJECT
\* and tagged parse_failed or manual_review.
X_C8_FailedDecisionsTagged ==
    Returned =>
        \A i \in 1..Len(decisions) :
            NotFromGenerator(raw_output, i) =>
                /\ decisions[i].decision = "REJECT"
                /\ (decisions[i].parse_failed \/ decisions[i].manual_review)

\* C9: a failing generator call does not leave the engine run as an
\* exception, and the pipeline run goes on with the remaining categories.
X_C9_GeneratorFailureContained ==
    /\ pc # "raised"
    /\ app_pc # "crashed"

\* C10: a run with groups calls the generator exactly once whatever it
\* answers, returns its decisions and copies the files; a run without groups
\* never calls it and returns the empty list.
C10_OneGeneratorCallPerRun ==
    /\ llm_calls <= 1
    /\ pc \in {"start", "invoke"} => llm_calls = 0
    /\ pc \in {"parse", "raised"} => llm_calls = 1
    /\ pc = "returned" =>
          IF groups_data = <<>>
          THEN llm_calls = 0 /\ returned = <<>> /\ copied = <<>>
          ELSE /\ llm_calls = 1
               /\ returned = decisions
               /\ Len(returned) = N
               /\ copied = save_data /\ copied # <<>>

\* A run that got text without JSON and still returned and copied.
W_C10 ==
    /\ Returned
    /\ raw_output.kind = "text"
    /\ llm_calls = 1
    /\ copied # <<>>
    /\ Len(returned) = N

\* The run_preprocessing call has returned.
Prepared == pc = "prepared"

\* The groups of one employee key and category, as indices into groups_data.
GroupsFor(key, cat) ==
    {i \in 1..Len(groups_data) :
        /\ groups_data[i].employee_id = key[1]
        /\ groups_data[i].employee_name = key[2]
        /\ groups_data[i].category = cat}

\* The amount of a bill: the reimbursable amount, else the raw amount.
AmountOf(b) ==
    IF b.reimbursable_amount # None /\ b.reimbursable_amount[1] # 0
    THEN b.reimbursable_amount[1]
    ELSE IF b.amount # None THEN b.amount[1] ELSE 0

\* validation.is_valid is true.
IsValidBill(b) == b.validation.has /\ b.validation.is_valid

RECURSIVE Total(_)
\* The sum of a sequence of numbers.
Total(s) == IF s = <<>> THEN 0 ELSE s[1] + Total(Tail(s))

\* The bills of one category in an employee's list, in order.
BillsIn(e, cat) == SelectSeq(e.bills, LAMBDA b : b.category = cat)

\* C11: every group pre-processing returns has exactly one of daily_total
\* and monthly_total set, also after the meal limits and the RAG context
\* were applied, and so has every group stored in the artifact.
C11_OneTotalPerGroup ==
    /\ \A i \in 1..Len(groups_data) :
          (groups_data[i].daily_total = None) # (groups_data[i].monthly_total = None)
    /\ \A k \in 1..Len(prep_file.by_employee) :
          \A j \in 1..Len(prep_file.by_employee[k].groups) :
             LET g == prep_file.by_employee[k].groups[j]
             IN (g.daily_total = None) # (g.monthly_total = None)

\* A per-diem group with limit and RAG context applied next to a group of
\* another category.
W_C11 ==
    /\ Prepared
    /\ \E i, j \in 1..Len(groups_data) :
          /\ groups_data[i].daily_limit # None
          /\ groups_data[i].rag_policy_context # ""
          /\ groups_data[i].daily_total # None
          /\ groups_data[j].monthly_total # None

\* C12: every per-diem bill of an employee, valid or not, dated or not, is in
\* exactly one group, the one with the bill's date, and the daily totals of
\* the employee's per-diem groups add up to the amounts of the employee's
\* valid per-diem bills.
X_C12_EveryMealBillInItsDayGroup ==
    Prepared =>
        \A n \in 1..Len(filtered_map) :
            LET e == filtered_map[n]
                meal == BillsIn(e, PerDiemCategory)
                gs == GroupsFor(e.key, PerDiemCategory)
                Holds(i, b) == b.id \in Range(groups_data[i].valid_bills)
                                        \cup Range(groups_data[i].invalid_bills)
                daily == [i \in 1..Len(groups_data) |->
                            IF i \in gs /\ groups_data[i].daily_total # None
                            THEN groups_data[i].daily_total[1] ELSE 0]
                valid == SelectSeq(meal, IsValidBill)
            IN /\ \A m \in 1..Len(meal) :
                     /\ Cardinality({i \in gs : Holds(i, meal[m])}) = 1
                     /\ \A i \in gs : Holds(i, meal[m]) => groups_data[i].date = meal[m].date
               /\ Total(daily) = Total([m \in 1..Len(valid) |-> AmountOf(valid[m])])

\* C13: for every employee and every category other than the per-diem one
\* there is exactly one group; it has no date and no daily total, and its
\* monthly total is the sum of the amounts of the valid bills of that
\* employee and category, dated or not.
C13_OneMonthlyGroupPerCategory ==
    Prepared =>
        \A n \in 1..Len(filtered_map) :
            LET e == filtered_map[n]
            IN \A cat \in {e.bills[m].category : m \in 1..Len(e.bills)} \ {PerDiemCategory} :
                  LET gs == GroupsFor(e.key, cat)
                      valid == SelectSeq(BillsIn(e, cat), IsValidBill)
                  IN /\ Cardinality(gs) = 1
                     /\ \A i \in gs :
                           /\ groups_data[i].date = None
                           /\ groups_data[i].daily_total = None
                           /\ groups_data[i].monthly_total
                                 = Some(Total([m \in 1..Len(valid) |-> AmountOf(valid[m])]))

\* A "cab" group over two months with an invalid bill, and a group of an
\* unknown category whose only bill has no date.
W_C13 ==
    /\ Prepared
    /\ \E i, j \in 1..Len(groups_data) :
          /\ groups_data[i].category = "cab"
          /\ groups_data[i].valid_bills = <<"q5">>
          /\ groups_data[i].invalid_bills = <<"q6">>
          /\ groups_data[i].monthly_total = Some(3)
          /\ groups_data[j].category = "unknown"
          /\ groups_data[j].monthly_total = Some(1)

\* C14: there is exactly one save entry per employee and category of the
\* input; its valid_files are the file names of the bills whose is_valid is
\* true, its invalid_files those of all other bills, and the group of a
\* category other than the per-diem one lists the ids of the same two sets.
C14_SaveEntrySplitsByValidity ==
    Prepared =>
        \A n \in 1..Len(filtered_map) :
            LET e == filtered_map[n]
            IN \A cat \in {e.bills[m].category : m \in 1..Len(e.bills)} :
                  LET ss == {i \in 1..Len(save_data) :
                                /\ save_data[i].employee_id = e.key[1]
                                /\ save_data[i].employee_name = e.key[2]
                                /\ save_data[i].category = cat}
                      bills == BillsIn(e, cat)
                      valid == SelectSeq(bills, IsValidBill)
                      invalid == SelectSeq(bills, LAMBDA b : ~IsValidBill(b))
                  IN /\ Cardinality(ss) = 1
                     /\ \A i \in ss :
                           /\ save_data[i].valid_files
                                 = [m \in 1..Len(valid) |-> valid[m].filename]
                           /\ save_data[i].invalid_files
                                 = [m \in 1..Len(invalid) |-> invalid[m].filename]
                     /\ cat # PerDiemCategory =>
                           \A i \in GroupsFor(e.key, cat) :
                              /\ groups_data[i].valid_bills
                                    = [m \in 1..Len(valid) |-> valid[m].id]
                              /\ groups_data[i].invalid_bills
                                    = [m \in 1..Len(invalid) |-> invalid[m].id]
                     /\ Len(valid) + Len(invalid) = Len(bills)

\* A "cab" pair of a valid bill and one without a validation record, next to
\* per-diem bills of the same employee.
W_C14 ==
    /\ Prepared
    /\ \E i, j \in 1..Len(save_data) :
          /\ save_data[i].category = "cab"
          /\ save_data[i].valid_files = << <<"q5", "pdf">> >>
          /\ save_data[i].invalid_files = << <<"q6", "pdf">> >>
          /\ save_data[j].category = "meal"
          /\ save_data[j].invalid_files # <<>>
          /\ save_data[j].valid_files # <<>>

RECURSIVE Supplied(_, _, _)
\* What the calls so far supplied for one employee key, in call order:
\* field is "groups" or "save".
Supplied(calls, key, field) ==
    IF calls = <<>> THEN <<>>
    ELSE LET last == calls[Len(calls)]
             Mine(x) == x.employee_id = key[1] /\ x.employee_name = key[2]
         IN Supplied(SubSeq(calls, 1, Len(calls) - 1), key, field)
            \o SelectSeq(IF field = "groups" THEN last.groups ELSE last.save, Mine)

\* C15: after any sequence of writes into an empty output directory, the
\* artifact holds for every employee key the groups and the save entries the
\* calls supplied for it, in call order, nothing removed or altered, and its
\* two counts are the numbers of groups and save entries it stores.
C15_ArtifactAccumulatesCalls ==
    LET by == prep_file.by_employee
        keys == {<<x.employee_id, x.employee_name>> :
                    x \in UNION {Range(prep_calls[c].groups) \cup Range(prep_calls[c].save) :
                                    c \in 1..Len(prep_calls)}}
    IN /\ prep_file.exists <=> prep_calls # <<>>
       /\ {by[k].key : k \in 1..Len(by)} = keys
       /\ \A k, l \in 1..Len(by) : by[k].key = by[l].key => k = l
       /\ \A k \in 1..Len(by) :
             /\ by[k].groups = Supplied(prep_calls, by[k].key, "groups")
             /\ by[k].save_data = Supplied(prep_calls, by[k].key, "save")
       /\ prep_file.group_count = Total([k \in 1..Len(by) |-> Len(by[k].groups)])
       /\ prep_file.save_entries_count = Total([k \in 1..Len(by) |-> Len(by[k].save_data)])

\* Two writes for different categories that both hold groups of one employee.
W_C15 ==
    /\ Len(prep_calls) = 2
    /\ prep_calls[1] # prep_calls[2]
    /\ \E k \in 1..Len(prep_file.by_employee) :
          LET gs == prep_file.by_employee[k].groups
          IN /\ Len(gs) >= 2
             /\ gs[1].category = "meal"
             /\ gs[Len(gs)].category = "cab"
    /\ prep_file.group_count >= 2

RECURSIVE Replay(_)
\* The artifact the given calls leave in an empty output directory.
Replay(calls) ==
    IF calls = <<>> THEN NoFile
    ELSE write_preprocessing_output(Replay(SubSeq(calls, 1, Len(calls) - 1)),
                                    calls[Len(calls)].groups, calls[Len(calls)].save)

\* C16: a write that repeats the groups and save entries of the write before
\* it leaves the artifact as that write left it.
X_C16_RepeatedWriteChangesNothing ==
    LET n == Len(prep_calls)
    IN (n >= 2 /\ prep_calls[n] = prep_calls[n - 1]) =>
          prep_file = Replay(SubSeq(prep_calls, 1, n - 1))

\* Two texts are the same category up to letter case.
SameCategory(a, b) ==
    \/ a = b
    \/ \E C \in {{"meal", "Meal", "MEAL"}, {"cab", "Cab"}, {"commute", "Commute"}} :
          a \in C /\ b \in C

\* C20: without a filter the bills map goes through unchanged; with one, the
\* result holds exactly the bills whose category is the filter up to letter
\* case, in their order and under their key, and no key without bills; when
\* no bill is left, run_preprocessing returns two empty lists.
C20_FilterKeepsMatchingBills ==
    Prepared =>
        /\ category_filter = "" => filtered_map = bills_map
        /\ category_filter # "" =>
              LET Match(b) == SameCategory(b.category, category_filter)
                  kept == [n \in 1..Len(bills_map) |->
                              [key |-> bills_map[n].key,
                               bills |-> SelectSeq(bills_map[n].bills, Match)]]
              IN filtered_map = SelectSeq(kept, LAMBDA e : e.bills # <<>>)
        /\ filtered_map = <<>> => groups_data = <<>> /\ save_data = <<>>

\* The filter "Cab" keeps the "cab" bills of one employee, drops the
\* employee's per-diem bills and drops another employee altogether.
W_C20 ==
    /\ Prepared
    /\ category_filter = "Cab"
    /\ Len(bills_map) = 2
    /\ Len(filtered_map) = 1
    /\ Len(filtered_map[1].bills) = 2
    /\ Len(bills_map[1].bills) > 2
    /\ groups_data # <<>>

\* The confidence score of a group in units of 1/300: 300 less 75 for an
\* unknown month, 105 for a missing or zero amount, 90 for no valid bill and
\* 10 per invalid bill up to three, kept within 0..300.
ExpectedScore(g) ==
    LET amount == IF SameCategory(g.category, PerDiemCategory) THEN g.daily_total
                  ELSE g.monthly_total
        n == Len(g.invalid_bills)
        raw == 300 - (IF g.month = <<>> THEN 75 ELSE 0)
                   - (IF amount = <<>> \/ amount = <<0>> THEN 105 ELSE 0)
                   - (IF g.valid_bills = <<>> THEN 90 ELSE 0)
                   - (IF n > 3 THEN 30 ELSE 10 * n)
    IN IF raw < 0 THEN 0 ELSE IF raw > 300 THEN 300 ELSE raw

\* The group has an unknown month, no valid bill and a zero or missing amount.
Hopeless(g) ==
    /\ g.month = <<>>
    /\ g.valid_bills = <<>>
    /\ (IF SameCategory(g.category, PerDiemCategory) THEN g.daily_total
        ELSE g.monthly_total) \in {<<>>, <<0>>}

\* C17: the confidence score of every decision is the score of its group,
\* rounded to hundredths; manual_review is true exactly when the score is
\* below 0.5, and so for every group with unknown month, no valid bill and a
\* zero amount.
C17_ConfidenceFromGroup ==
    Returned =>
        \A i \in 1..Len(decisions) :
            LET e == ExpectedScore(groups_data[i])
            IN /\ 3 * decisions[i].confidence_score - e \in {-1, 0, 1}
               /\ decisions[i].manual_review <=> (e < 150)
               /\ Hopeless(groups_data[i]) => decisions[i].manual_review

\* An approved decision for a group with unknown month, no valid bill and a
\* zero amount, sent to manual review.
W_C17 ==
    /\ Returned
    /\ Hopeless(groups_data[1])
    /\ groups_data[1].invalid_bills # <<>>
    /\ decisions[1].decision = "APPROVE"
    /\ decisions[1].manual_review
    /\ decisions[1].confidence_score = 7

\* The non-empty reasons a generator element gives for a bill id, stripped.
GivenReasons(out, i, bid) ==
    IF NotFromGenerator(out, i) THEN {}
    ELSE {r.reason : r \in {x \in Range(out.items[i].invalid_bill_reasons) :
                              x.bill_id = bid /\ x.reason # <<>> /\ x.reason # Blank}}

\* The reasons the group pre-computed for a bill id.
GroupReasons(g, bid) ==
    {r.reason : r \in {x \in Range(g.invalid_bill_reasons) : x.bill_id = bid}}

\* C18: invalid_bill_reasons has one entry per id of invalid_bill_ids, in
\* order; the reason is the generator's when it gave a non-empty one, else
\* the group's, else the fixed text; no reason is empty.
C18_OneReasonPerInvalidId ==
    Returned =>
        \A i \in 1..Len(decisions) :
            LET d == decisions[i]
            IN /\ Len(d.invalid_bill_reasons) = Len(d.invalid_bill_ids)
               /\ \A j \in 1..Len(d.invalid_bill_ids) :
                     LET bid == d.invalid_bill_ids[j]
                         r == d.invalid_bill_reasons[j].reason
                         given == GivenReasons(raw_output, i, bid)
                         own == GroupReasons(groups_data[i], bid)
                     IN /\ d.invalid_bill_reasons[j].bill_id = bid
                        /\ r # <<>> /\ r # Blank
                        /\ IF given # {} THEN r \in given
                           ELSE IF own # {} THEN r \in own
                           ELSE r = <<[label |-> "Rejected (no specific reason provided)",
                                       score |-> <<>>]>>

\* Two groups: for the first the generator gives blank reasons, so the
\* group's reason for p3 stays and the unknown id gets the fixed text; the
\* second has no element and gets its reasons as a placeholder.
W_C18 ==
    /\ Returned
    /\ Len(decisions) = 2
    /\ raw_output.kind = "array"
    /\ Len(raw_output.items) = 1
    /\ raw_output.items[1] = BlankReasons
    /\ GroupReasons(groups_data[1], "p3") # {}
    /\ decisions[1].invalid_bill_reasons[1].reason \in GroupReasons(groups_data[1], "p3")
    /\ decisions[1].invalid_bill_reasons[2].reason = NoSpecificReason
    /\ decisions[2].parse_failed
    /\ decisions[2].invalid_bill_reasons # <<>>

\* The canonical lowercase name of a category.
Canonical(c) ==
    IF c \in {"cab", "Cab", "commute", "Commute"} THEN "commute"
    ELSE IF c \in {"meal", "Meal", "MEAL", "meals"} THEN "meal"
    ELSE c

\* C19: the category of every decision is the canonical lowercase name of
\* its group's category, aliases folded, whatever the generator wrote.
X_C19_CategoryCanonical ==
    Returned =>
        \A i \in 1..Len(decisions) :
            decisions[i].category = Canonical(groups_data[i].category)

\* A per-diem group: a group of the per-diem category that has a daily total.
IsPerDiemGroup(g) == g.category = "meal" /\ g.daily_total # <<>>

\* The policy's limit is a number.
IsNumber(limit) == Len(limit) = 1

\* C21: with a numeric limit L in the policy, apply_meal_limits sets on every
\* per-diem group daily_limit to L, reimbursable_daily_total to the smaller
\* of daily_total and L and daily_total_exceeds_limit to daily_total > L,
\* and nothing else; it leaves every other group, and without such a limit
\* every group, as it was.  The groups run_preprocessing returns carry these
\* three fields.
C21_MealLimitsOnDayGroups ==
    Prepared =>
        /\ Len(prep_steps.limited) = Len(prep_steps.prepared)
        /\ Len(groups_data) = Len(prep_steps.prepared)
        /\ \A i \in 1..Len(prep_steps.prepared) :
              LET before == prep_steps.prepared[i]
                  after == prep_steps.limited[i]
              IN /\ IF IsPerDiemGroup(before) /\ IsNumber(policy_limit)
                    THEN LET L == policy_limit[1]
                             t == before.daily_total[1]
                         IN /\ after.daily_limit = <<L>>
                            /\ after.reimbursable_daily_total = <<IF t < L THEN t ELSE L>>
                            /\ after.daily_total_exceeds_limit = <<t > L>>
                            /\ [after EXCEPT !.daily_limit = <<>>,
                                             !.reimbursable_daily_total = <<>>,
                                             !.daily_total_exceeds_limit = <<>>] = before
                    ELSE after = before
                 /\ groups_data[i].daily_limit = after.daily_limit
                 /\ groups_data[i].reimbursable_daily_total = after.reimbursable_daily_total
                 /\ groups_data[i].daily_total_exceeds_limit = after.daily_total_exceeds_limit

\* A limit of 2 with one per-diem group at the limit, one below it, and a
\* group of another category left alone.
W_C21 ==
    /\ Prepared
    /\ policy_limit = <<2>>
    /\ \E i, j, k \in 1..Len(prep_steps.limited) :
          /\ prep_steps.prepared[i].daily_total = <<2>>
          /\ prep_steps.limited[i].reimbursable_daily_total = <<2>>
          /\ prep_steps.prepared[j].daily_total = <<1>>
          /\ prep_steps.limited[j].reimbursable_daily_total = <<1>>
          /\ prep_steps.limited[j].daily_total_exceeds_limit = <<FALSE>>
          /\ prep_steps.limited[k].category = "cab"
          /\ prep_steps.limited[k] = prep_steps.prepared[k]

\* The bill of the filtered input that has the given id.
BillOfId(bid) ==
    CHOOSE b \in UNION {Range(filtered_map[n].bills) : n \in 1..Len(filtered_map)} :
        b.id = bid

\* The first non-empty currency among the bills with the given ids, "" when
\* none has one.
FirstCurrency(ids) ==
    LET with == SelectSeq(ids, LAMBDA bid : BillOfId(bid).currency # "")
    IN IF with = <<>> THEN "" ELSE BillOfId(with[1]).currency

\* C24: the currency of a group is the first non-empty currency among its
\* valid bills; when no valid bill has one, the first among all its bills;
\* when no bill has one, INR.
X_C24_CurrencyValidFirstThenAll ==
    Prepared =>
        \A i \in 1..Len(groups_data) :
            LET g == groups_data[i]
                of_valid == FirstCurrency(g.valid_bills)
                of_all == FirstCurrency(g.valid_bills \o g.invalid_bills)
            IN g.currency = IF of_valid # "" THEN of_valid
                            ELSE IF of_all # "" THEN of_all
                            ELSE "INR"

\* C25: every raw output an engine run wrote is still on disk, each in a file
\* of its own: as many files as runs that wrote one, and for every run a
\* file with its content.
X_C25_EveryRawOutputKept ==
    /\ Cardinality(raw_files) = Len(raw_log)
    /\ \A k \in 1..Len(raw_log) :
          \E f \in raw_files : f.content = raw_log[k].content

RECURSIVE LexBefore(_, _, _)
\* How the character at index k of s reads when the text after the bracket at
\* index start is read as code and string literals: <<"code">> outside a
\* literal, <<"literal", q>> inside one opened by quote q, <<"escaped", q>>
\* right after a backslash inside one.
LexBefore(s, start, k) ==
    IF k <= start + 1 THEN <<"code">>
    ELSE LET before == LexBefore(s, start, k - 1)
             c == s[k]
         IN CASE before[1] = "escaped" -> <<"literal", before[2]>>
              [] before[1] = "literal" ->
                    IF c = "\\" THEN <<"escaped", before[2]>>
                    ELSE IF c = before[2] THEN <<"code">>
                    ELSE before
              [] OTHER -> IF c \in {"\"", "'"} THEN <<"literal", c>> ELSE before

\* The bracket depth after the character at index k: one for the bracket at
\* start, plus the opening and minus the closing brackets read as code up to
\* k.
DepthAfter(s, start, k) ==
    LET InCode(c) == {j \in (start + 1)..k :
                        s[j + 1] = c /\ LexBefore(s, start, j + 1) = <<"code">>}
    IN 1 + Cardinality(InCode("[")) - Cardinality(InCode("]"))

\* The indices at which a closing bracket read as code brings the depth to 0.
Closings(s, start) ==
    {k \in (start + 1)..(Len(s) - 1) :
        /\ s[k + 1] = "]"
        /\ LexBefore(s, start, k + 1) = <<"code">>
        /\ DepthAfter(s, start, k) = 0}

Scanned == pc = "scanned"

\* C27: the call returns None when start is out of range, when the character
\* at start is no opening bracket and when no closing bracket outside string
\* literals brings the depth back to zero; otherwise the text from start to
\* the first such bracket.
C27_BalancedArrayIgnoresLiterals ==
    Scanned =>
        LET s == scan.s
            start == scan.start
            ends == IF start < 0 \/ start >= Len(s) THEN {}
                    ELSE IF s[start + 1] # "[" THEN {}
                    ELSE Closings(s, start)
        IN IF ends = {} THEN scan.result = <<>>
           ELSE LET e == CHOOSE k \in ends : \A l \in ends : k <= l
                IN scan.result = << [j \in 1..(e - start + 1) |-> s[start + j]] >>

\* The text ["]"] scanned from its first character: the first closing
\* bracket is inside a literal, the last one closes the array.
W_C27 ==
    /\ Scanned
    /\ scan.s = <<"[", "\"", "]", "\"", "]">>
    /\ scan.start = 0
    /\ scan.result = <<scan.s>>

\* A write_decision_outputs call has returned; LastWritten is its argument.
Posted == app_pc = "post" /\ pc = "idle" /\ post_calls # <<>>

LastWritten == post_calls[Len(post_calls)]

\* The bucket key of a decision: employee key, canonical category, month.
BucketKey(d) == <<d.employee_id, d.employee_name, Canonical(d.category), d.month>>

\* C22: the buckets of group_decisions have pairwise distinct keys, every
\* bucket holds exactly the input decisions of its key (employee key,
\* canonical category, month) in input order, and the buckets together hold
\* as many decisions as the input; so aliases and other letter cases of one
\* category share a bucket.
C22_OneBucketPerDecision ==
    (Posted /\ LastWritten # <<>>) =>
        /\ \A k, l \in 1..Len(grouped) :
              <<grouped[k].name, grouped[k].category, grouped[k].month>>
                 = <<grouped[l].name, grouped[l].category, grouped[l].month>> => k = l
        /\ \A k \in 1..Len(grouped) :
              /\ grouped[k].items # <<>>
              /\ grouped[k].items
                    = SelectSeq(LastWritten,
                                LAMBDA d : BucketKey(d) = <<grouped[k].name[1], grouped[k].name[2],
                                                            grouped[k].category, grouped[k].month>>)
        /\ Total([k \in 1..Len(grouped) |-> Len(grouped[k].items)]) = Len(LastWritten)
        /\ \A i, j \in 1..Len(LastWritten) :
              BucketKey(LastWritten[i]) = BucketKey(LastWritten[j]) =>
                 \E k \in 1..Len(grouped) :
                    LastWritten[i] \in Range(grouped[k].items)
                    /\ LastWritten[j] \in Range(grouped[k].items)

\* One bucket "commute" holding a "Commute" and a "Cab" decision, and one
\* bucket "meal" holding a "MEAL" and a "meals" decision of the same employee
\* and month.
W_C22 ==
    /\ Posted
    /\ \E k, l \in 1..Len(grouped) :
          /\ grouped[k].category = "commute"
          /\ Len(grouped[k].items) = 2
          /\ grouped[k].items[1].category = "Commute"
          /\ grouped[k].items[2].category = "Cab"
          /\ grouped[l].category = "meal"
          /\ grouped[l].name = grouped[k].name
          /\ {grouped[l].items[m].category : m \in 1..Len(grouped[l].items)}
                = {"MEAL", "meals"}

\* C23: the summary has one entry per bucket; its decision is REJECT exactly
\* when some decision of the bucket has verdict REJECT in any letter case,
\* else APPROVE; its amounts are the sums of the decisions' claimed and
\* approved amounts, its bill counts the sums of the lengths of their id
\* lists, its period_count their number.
C23_SummaryOfBucket ==
    (Posted /\ LastWritten # <<>>) =>
        /\ Len(summary) = Len(grouped)
        /\ \A k \in 1..Len(grouped) :
              LET e == summary[k]
                  items == grouped[k].items
                  Of(F(_)) == Total([m \in 1..Len(items) |-> F(items[m])])
                  Claimed(d) == d.claimed_amount
                  Approved(d) == d.approved_amount
                  NValid(d) == Len(d.valid_bill_ids)
                  NInvalid(d) == Len(d.invalid_bill_ids)
              IN /\ <<e.name, e.category, e.month>>
                       = <<grouped[k].name, grouped[k].category, grouped[k].month>>
                 /\ e.decision = IF \E m \in 1..Len(items) : IsReject(items[m].decision)
                                 THEN "REJECT" ELSE "APPROVE"
                 /\ e.claimed_amount = Of(Claimed)
                 /\ e.approved_amount = Of(Approved)
                 /\ e.valid_bill_count = Of(NValid)
                 /\ e.invalid_bill_count = Of(NInvalid)
                 /\ e.period_count = Len(items)

\* A bucket of an approved and a rejected decision: the entry is a REJECT
\* that still carries the approved amount of the first.
W_C23 ==
    /\ Posted
    /\ \E k \in 1..Len(grouped) :
          /\ Len(grouped[k].items) = 2
          /\ grouped[k].items[1].decision = "APPROVE"
          /\ grouped[k].items[2].decision = "reject"
          /\ summary[k].decision = "REJECT"
          /\ summary[k].approved_amount > 0
          /\ summary[k].claimed_amount > summary[k].approved_amount
          /\ summary[k].period_count = 2

\* The decision as the artifact stores it: without claimed_amount, with the
\* canonical category.
Stored(d) ==
    [f \in DOMAIN d \ {"claimed_amount"} |->
        IF f = "category" THEN Canonical(d.category) ELSE d[f]]

\* The artifact holds the decision in the section of its employee, and that
\* section's summary has an entry for the decision's category and month.
Keeps(file, d) ==
    \E k \in 1..Len(file.by_employee) :
        LET sec == file.by_employee[k]
        IN /\ sec.key = <<d.employee_id, d.employee_name>>
           /\ Stored(d) \in Range(sec.decisions)
           /\ \E m \in 1..Len(sec.summary) :
                 /\ sec.summary[m].category = Canonical(d.category)
                 /\ sec.summary[m].month = d.month

\* C26: after a write for the decisions of one category into a directory
\* whose artifact holds decisions of other categories, the artifact still
\* holds those decisions and their summary entries.
X_C26_OtherCategoriesKept ==
    (Posted /\ Len(post_calls) = 2 /\ post_calls[2] # <<>>) =>
        \A i \in 1..Len(post_calls[1]) :
            LET d == post_calls[1][i]
            IN (\A j \in 1..Len(post_calls[2]) :
                    Canonical(post_calls[2][j].category) # Canonical(d.category))
               => Keeps(post_file, d)

RECURSIVE CountSum(_)
\* The sum of the counts of a set of [reason, count] records.
CountSum(S) ==
    IF S = {} THEN 0
    ELSE LET x == CHOOSE y \in S : TRUE IN x.count + CountSum(S \ {x})

\* C28: in every decision written, the records of error_summary have
\* pairwise distinct reasons, each lists the bill ids of exactly the entries
\* of invalid_bill_reasons with its reason, in order, and counts them; every
\* entry's reason has a record; the counts sum to the number of invalid bill
\* ids.  The counts of a summary entry's invalid_reasons sum to its
\* invalid_bill_count.
C28_ErrorSummaryPartitionsReasons ==
    (Posted /\ LastWritten # <<>>) =>
        /\ \A i \in 1..Len(LastWritten) :
              LET es == LastWritten[i].error_summary
                  rs == LastWritten[i].invalid_bill_reasons
              IN /\ \A k, l \in 1..Len(es) : es[k].reason = es[l].reason => k = l
                 /\ \A k \in 1..Len(es) :
                       LET mine == SelectSeq(rs, LAMBDA r : r.reason = es[k].reason)
                       IN /\ es[k].bill_ids = [m \in 1..Len(mine) |-> mine[m].bill_id]
                          /\ es[k].count = Len(es[k].bill_ids)
                          /\ es[k].count >= 1
                 /\ \A m \in 1..Len(rs) : \E k \in 1..Len(es) : es[k].reason = rs[m].reason
                 /\ Total([k \in 1..Len(es) |-> es[k].count])
                       = Len(LastWritten[i].invalid_bill_ids)
        /\ \A k \in 1..Len(summary) :
              CountSum(summary[k].invalid_reasons) = summary[k].invalid_bill_count

\* A rejected decision with three invalid ids, two of them under one reason,
\* in a bucket whose summary counts three invalid bills under two reasons.
W_C28 ==
    /\ Posted
    /\ \E k \in 1..Len(grouped) :
          /\ \E m \in 1..Len(grouped[k].items) :
                LET es == grouped[k].items[m].error_summary
                IN /\ Len(es) = 2
                   /\ {es[1].count, es[2].count} = {1, 2}
                   /\ Len(grouped[k].items[m].invalid_bill_ids) = 3
          /\ summary[k].invalid_bill_count >= 3
          /\ Cardinality(summary[k].invalid_reasons) >= 2

\* C29: every decision the run returned carries the employee id and name of
\* the group at its position, and every summary entry written for these
\* decisions is filed under the employee key of one of the groups.
X_C29_DecisionOfGroupsEmployee ==
    (Posted /\ LastWritten # <<>>) =>
        /\ \A i \in 1..Len(decisions) :
              /\ decisions[i].employee_id = groups_data[i].employee_id
              /\ decisions[i].employee_name = groups_data[i].employee_name
        /\ \A k \in 1..Len(summary) :
              \E i \in 1..Len(groups_data) :
                 summary[k].name = <<groups_data[i].employee_id, groups_data[i].employee_name>>

\* C30: in every decision returned, valid_bill_ids and invalid_bill_ids have
\* no id in common and together hold exactly the bill ids of the decision's
\* group, whatever the verdict.
X_C30_IdsPartitionGroupIds ==
    Returned =>
        \A i \in 1..Len(decisions) :
            LET v == Range(decisions[i].valid_bill_ids)
                w == Range(decisions[i].invalid_bill_ids)
            IN /\ v \cap w = {}
               /\ v \cup w = GroupIds(groups_data[i])

====
